---- MODULE Spec2Model ----
(***************************************************************************)
(* labterm: the Dashboard render / input loop (dashboard.py), the widgets' *)
(* edit protocol (dashboard_item.py) and the background poll loop that     *)
(* feeds the data queue.                                                   *)
(*                                                                         *)
(* Python values are modelled as records with a uniform set of fields so   *)
(* that values of different Python types can be compared.  A float that is *)
(* the result of float(<decimal string>) is kept as the exact decimal      *)
(* neg * num / 10^scale; for the short buffers explored here distinct      *)
(* decimals map to distinct doubles.                                       *)
(***************************************************************************)
EXTENDS Integers, Sequences, FiniteSets, TLC

\* ------------------------------------------------------------------ bounds
\* longest edit buffer the keyboard model types
MaxBufLen == 3
\* most batches waiting in the data queue
MaxQueue == 2
\* grid_start coordinates range over 0..MaxGridStart
MaxGridStart == 1
\* max_log_messages passed to the constructor
MaxLogMessages == 2
\* update_data calls of one instrument that may hang past the timeout at a time
MaxAbandoned == 1
\* largest channel number given to an instrument
MaxChannel == 2
\* most instruments passed to add_instruments
MaxAdded == 4
\* most widgets given to add_items
MaxItems == 3
\* largest worker pool given to a dashboard whose instrument hangs
MaxWorkers == 2
\* largest size of a widget position (x, y), of an offset, of a text length
MaxPos == 1
MaxOffset == 2
MaxTextLen == 3

\* ------------------------------------------------------------------ values
NoneVal == [t |-> "none", b |-> FALSE, neg |-> FALSE, num |-> 0, scale |-> 0]
BoolVal(x) == [t |-> "bool", b |-> x, neg |-> FALSE, num |-> 0, scale |-> 0]
FloatVal(n, m, s) == [t |-> "float", b |-> FALSE, neg |-> n, num |-> m, scale |-> s]
IntVal(m) == [t |-> "int", b |-> FALSE, neg |-> FALSE, num |-> m, scale |-> 0]
StrVal == [t |-> "str", b |-> FALSE, neg |-> FALSE, num |-> 0, scale |-> 0]

\* Optional[int] / Optional[str]: <<>> is None, <<x>> is x
None == <<>>
Some(x) == <<x>>

\* Editable._edit_buffer holds a str while editing and a value otherwise
StrBuf(s) == [isStr |-> TRUE, str |-> s, val |-> NoneVal]
ValBuf(v) == [isStr |-> FALSE, str |-> <<>>, val |-> v]

\* ------------------------------------------------------------------ float()
Digits == {"0", "1", "2", "3", "4", "5", "6", "7", "8", "9"}

DigitVal(c) ==
    CASE c = "0" -> 0 [] c = "1" -> 1 [] c = "2" -> 2 [] c = "3" -> 3
      [] c = "4" -> 4 [] c = "5" -> 5 [] c = "6" -> 6 [] c = "7" -> 7
      [] c = "8" -> 8 [] c = "9" -> 9

RECURSIVE DigitsToNat(_)
DigitsToNat(s) ==
    IF s = <<>> THEN 0
    ELSE 10 * DigitsToNat(SubSeq(s, 1, Len(s) - 1)) + DigitVal(s[Len(s)])

RECURSIVE StripTrailingZeros(_)
StripTrailingZeros(s) ==
    IF s # <<>> /\ s[Len(s)] = "0"
    THEN StripTrailingZeros(SubSeq(s, 1, Len(s) - 1))
    ELSE s

\* position of the first "." of s, Len(s)+1 when there is none
DotPos(s) ==
    IF \E i \in 1..Len(s) : s[i] = "."
    THEN CHOOSE i \in 1..Len(s) : s[i] = "." /\ \A j \in 1..(i - 1) : s[j] # "."
    ELSE Len(s) + 1

\* float(s) for s over the characters handle_edit_key lets into the buffer:
\* [sign] (digits [. [digits]] | . digits); anything else is a ValueError.
ParseFloat(s) ==
    LET neg  == s # <<>> /\ s[1] = "-"
        body == IF neg THEN Tail(s) ELSE s
        dot  == DotPos(body)
        ip   == SubSeq(body, 1, dot - 1)
        fp   == SubSeq(body, dot + 1, Len(body))
        ok   == /\ \A i \in 1..Len(ip) : ip[i] \in Digits
                /\ \A i \in 1..Len(fp) : fp[i] \in Digits
                /\ Len(ip) + Len(fp) > 0
        fs   == StripTrailingZeros(fp)
    IN  IF ok
        THEN [ok |-> TRUE, val |-> FloatVal(neg, DigitsToNat(ip \o fs), Len(fs))]
        ELSE [ok |-> FALSE, val |-> NoneVal]

\* ------------------------------------------------------------------ widgets
Label ==
    [kind |-> "Label", navigable |-> FALSE, editable |-> FALSE,
     xgrid |-> None, ygrid |-> None, channel |-> None, data |-> None,
     action |-> None, value |-> StrVal, edit_buffer |-> ValBuf(NoneVal),
     editing |-> FALSE]

Switch(xg, yg, ch, d, a) ==
    [kind |-> "Switch", navigable |-> TRUE, editable |-> FALSE,
     xgrid |-> Some(xg), ygrid |-> Some(yg), channel |-> ch, data |-> d,
     action |-> a, value |-> BoolVal(FALSE), edit_buffer |-> ValBuf(NoneVal),
     editing |-> FALSE]

Readonly(ch, d) ==
    [kind |-> "Readonly", navigable |-> FALSE, editable |-> FALSE,
     xgrid |-> None, ygrid |-> None, channel |-> Some(ch), data |-> Some(d),
     action |-> None, value |-> FloatVal(FALSE, 0, 0),
     edit_buffer |-> ValBuf(NoneVal), editing |-> FALSE]

Editable(xg, yg, ch, d, a) ==
    [kind |-> "Editable", navigable |-> TRUE, editable |-> TRUE,
     xgrid |-> Some(xg), ygrid |-> Some(yg), channel |-> Some(ch),
     data |-> Some(d), action |-> Some(a), value |-> FloatVal(FALSE, 0, 0),
     edit_buffer |-> ValBuf(FloatVal(FALSE, 0, 0)), editing |-> FALSE]

\* an enter_edit that keeps what the buffer held
EnterEditKeepsBuffer(item) == [item EXCEPT !.editing = TRUE]

\* an enter_edit that empties the buffer and leaves the item's flag alone
EnterEditNoFlag(item) == [item EXCEPT !.edit_buffer = StrBuf(<<>>)]

\* Editable.enter_edit
EnterEdit(item) == [item EXCEPT !.editing = TRUE, !.edit_buffer = StrBuf(<<>>)]

\* an exit_edit that leaves the item's flag set
ExitEditKeepsFlag(item) == item

\* Editable.exit_edit
ExitEdit(item) == [item EXCEPT !.editing = FALSE]

BackspaceKeys == {"DEL", "KEY_BACKSPACE"}

\* an Escape branch that commits the fallback instead of cancelling
EditKeyEscapeCommits(item) ==
    [end |-> TRUE, commit |-> IntVal(0), item |-> item]

\* handle_edit_key, key == 27: leave the edit with nothing to commit
EditKeyEscape(item) ==
    [end |-> TRUE, commit |-> NoneVal, item |-> item]

\* an Enter branch that returns the parsed number without storing it
EditKeyEnterNoStore(item) ==
    LET p == ParseFloat(item.edit_buffer.str)
    IN  IF p.ok
        THEN [end |-> TRUE, commit |-> p.val, item |-> item]
        ELSE [end |-> TRUE, commit |-> IntVal(0),
              item |-> [item EXCEPT !.edit_buffer = ValBuf(item.value)]]

\* an Enter branch that cancels on a ValueError
EditKeyEnterCancels(item) ==
    LET p == ParseFloat(item.edit_buffer.str)
    IN  IF p.ok
        THEN [end |-> TRUE, commit |-> p.val,
              item |-> [item EXCEPT !.value = p.val]]
        ELSE [end |-> TRUE, commit |-> NoneVal,
              item |-> [item EXCEPT !.edit_buffer = ValBuf(item.value)]]

\* handle_edit_key, Enter: self.value = float(self._edit_buffer) and commit
\* it; on ValueError the buffer takes the old value and 0 is committed
EditKeyEnter(item) ==
    LET p == ParseFloat(item.edit_buffer.str)
    IN  IF p.ok
        THEN [end |-> TRUE, commit |-> p.val,
              item |-> [item EXCEPT !.value = p.val]]
        ELSE [end |-> TRUE, commit |-> IntVal(0),
              item |-> [item EXCEPT !.edit_buffer = ValBuf(item.value)]]

\* a Backspace branch that drops the first character
EditKeyBackspaceFront(item) ==
    [end |-> FALSE, commit |-> IntVal(0),
     item |-> [item EXCEPT !.edit_buffer = StrBuf(SubSeq(item.edit_buffer.str, 2,
                                                        Len(item.edit_buffer.str)))]]

\* handle_edit_key, Backspace: self._edit_buffer[:-1]
EditKeyBackspace(item) ==
    [end |-> FALSE, commit |-> IntVal(0),
     item |-> [item EXCEPT !.edit_buffer = StrBuf(SubSeq(item.edit_buffer.str, 1,
                                                        Len(item.edit_buffer.str) - 1))]]

\* handle_edit_key, digit or one of ".-": self._edit_buffer += chr(key)
EditKeyChar(item, key) ==
    [end |-> FALSE, commit |-> IntVal(0),
     item |-> [item EXCEPT !.edit_buffer = StrBuf(Append(item.edit_buffer.str, key))]]

\* a handle_edit_key in which Backspace on an empty buffer leaves the edit
HandleEditKeyBackspaceLeaves(item, key) ==
    IF key = "ESC" THEN EditKeyEscape(item)
    ELSE IF key = "ENTER" THEN EditKeyEnter(item)
    ELSE IF key \in BackspaceKeys
    THEN IF item.edit_buffer.str = <<>> THEN EditKeyEscape(item)
         ELSE EditKeyBackspace(item)
    ELSE IF key \in Digits \/ key \in {".", "-"} THEN EditKeyChar(item, key)
    ELSE [end |-> FALSE, commit |-> NoneVal, item |-> item]

\* Editable.handle_edit_key: (end_edit, commit value, the item as mutated)
HandleEditKey(item, key) ==
    IF key = "ESC" THEN EditKeyEscape(item)
    ELSE IF key = "ENTER" THEN EditKeyEnter(item)
    ELSE IF key \in BackspaceKeys THEN EditKeyBackspace(item)
    ELSE IF key \in Digits \/ key \in {".", "-"} THEN EditKeyChar(item, key)
    ELSE [end |-> FALSE, commit |-> NoneVal, item |-> item]

\* ------------------------------------------------------------------ placement
\* screen.getmaxyx() of a standard terminal
WindowWidth == 80
WindowHeight == 24

HAligns == {"left", "center", "right"}
XYCoords == {"int", "prop"}

\* no _calculate_position call made yet
NoPosition == [called |-> FALSE]

\* a _calculate_position that clamps before the offsets are added
CalculatePositionClampFirst(w, text_length) ==
    IF w.xycoords \notin XYCoords THEN [raised |-> "ValueError"]
    ELSE IF w.halign \notin HAligns THEN [raised |-> "Exception"]
    ELSE
      LET x0 == IF w.xycoords = "int" THEN w.x ELSE w.x * WindowWidth
          y0 == IF w.xycoords = "int" THEN w.y ELSE w.y * WindowHeight
          x1 == CASE w.halign = "left" -> x0
                  [] w.halign = "center" -> x0 - (text_length \div 2)
                  [] w.halign = "right" -> x0 - (text_length - 1)
      IN  [raised |-> "none",
           xpos |-> (IF x1 < 0 THEN 0 ELSE x1) + w.xoffset,
           ypos |-> (IF y0 < 0 THEN 0 ELSE y0) + w.yoffset]

\* DashboardItem._calculate_position: the coordinates made absolute, the
\* horizontal alignment applied ("//" rounds down, as \div does), the offsets
\* added, then negative coordinates set to 0; an unknown coordinate system or
\* alignment raises
CalculatePosition(w, text_length) ==
    IF w.xycoords \notin XYCoords THEN [raised |-> "ValueError"]
    ELSE IF w.halign \notin HAligns THEN [raised |-> "Exception"]
    ELSE
      LET x0 == IF w.xycoords = "int" THEN w.x ELSE w.x * WindowWidth
          y0 == IF w.xycoords = "int" THEN w.y ELSE w.y * WindowHeight
          x1 == CASE w.halign = "left" -> x0
                  [] w.halign = "center" -> x0 - (text_length \div 2)
                  [] w.halign = "right" -> x0 - (text_length - 1)
          x2 == x1 + w.xoffset
          y2 == y0 + w.yoffset
      IN  [raised |-> "none",
           xpos |-> IF x2 < 0 THEN 0 ELSE x2,
           ypos |-> IF y2 < 0 THEN 0 ELSE y2]

\* ------------------------------------------------------------------ keyboard
ArrowKeys == {"KEY_UP", "KEY_DOWN", "KEY_LEFT", "KEY_RIGHT"}
\* the characters the keyboard model types into an edit buffer
TypedChars == {"1", ".", "-"}
\* getch() results: "NONE" is -1 (no input), "x" stands for any unbound key
Keys == ArrowKeys \cup BackspaceKeys \cup TypedChars
            \cup {"ENTER", "ESC", "i", "q", "x", "NONE"}

\* ------------------------------------------------------------------ layouts
\* what the caller registers and adds before run(): instruments by channel
\* and the ordered item list
LayoutRow ==
    [instruments |-> {0},
     items |-> << Label,
                  Switch(0, 0, Some(0), Some("power"), Some("power_switch")),
                  Editable(1, 0, 0, "target", "set_target"),
                  Readonly(0, "value") >>]

\* a sparse grid: cells (1,0) hold nothing; the Editable is bound to a
\* channel no instrument is registered for, one Switch has no channel
LayoutSparse ==
    [instruments |-> {0},
     items |-> << Switch(0, 0, Some(0), Some("power"), Some("power_switch")),
                  Switch(0, 1, None, None, None),
                  Editable(1, 1, 1, "target", "set_target") >>]

\* two navigable items on the same grid cell
LayoutDup ==
    [instruments |-> {0},
     items |-> << Switch(0, 0, Some(0), Some("power"), Some("power_switch")),
                  Editable(0, 0, 0, "target", "set_target") >>]

\* nothing navigable
LayoutBare ==
    [instruments |-> {0},
     items |-> << Label, Readonly(0, "value") >>]

\* two instruments, one read-only display of each
LayoutTwo ==
    [instruments |-> {0, 1},
     items |-> << Readonly(0, "value"), Readonly(1, "value") >>]

\* one instrument with an editable and a read-only display of its fields
LayoutEdit ==
    [instruments |-> {0},
     items |-> << Editable(0, 0, 0, "value", "set_value"), Readonly(0, "target") >>]

Layouts == {LayoutRow, LayoutSparse, LayoutDup, LayoutBare}

\* ------------------------------------------------------------------ state
VARIABLES
    items,              \* Dashboard.items, each with its mutable attributes
    instruments,        \* Dashboard.instruments: channel -> Instrument.data
    current_grid_x,     \* Dashboard._current_grid_x
    current_grid_y,     \* Dashboard._current_grid_y
    cycle,              \* Dashboard._cycle
    running,            \* Dashboard._running
    editing,            \* Dashboard._editing
    inverted_colors,    \* Dashboard._inverted_colors
    log_messages,       \* Dashboard._log_messages
    data_queue,         \* Dashboard._data_queue
    pc,                 \* where run() is: "drain", "draw", "input", "stopped", "crashed"
    drawn,              \* selected flag each item was last drawn with
    err,                \* the exception that ended run(), "none" if none
    lastKey,            \* key read by _handle_input in the loop turn just ended
    calls,              \* Instrument.action calls made while handling that key
    drained,            \* batches dequeued since the drain step began
    pre_values,         \* item values when the drain step began
    pollpc,             \* where _update_data_loop is
    futures,            \* channel -> state of the submitted update_data call
    future_to_items,    \* channel -> item indexes collected at submit time
    iter_used,          \* size of Dashboard.instruments when its iteration began
    abandoned,          \* channel -> update_data calls still running that no cycle waits for
    keyboard,           \* the keys the user presses during this run
    draw_order,         \* the items drawn by the last draw, in the order of the draw calls
    added,              \* the instruments passed to add_instruments so far, in order
    owner,              \* channel -> which of them Dashboard.instruments holds
    max_log_messages,   \* Dashboard._max_log_messages
    show_log,           \* Dashboard._show_log
    position,           \* the last _calculate_position call: its inputs and what it returned
    data_update_workers \* max_workers of the poll loop's ThreadPoolExecutor

render_vars == <<items, current_grid_x, current_grid_y, cycle, running, editing,
                 inverted_colors, pc, drawn, draw_order, err, lastKey, calls, drained,
                 pre_values>>
setup_vars == <<added, owner, max_log_messages, show_log, position,
                data_update_workers>>
poll_vars == <<instruments, pollpc, futures, future_to_items, iter_used, abandoned>>
vars == <<render_vars, poll_vars, log_messages, data_queue, keyboard, setup_vars>>

ItemIdx == DOMAIN items
Values(its) == [i \in DOMAIN its |-> its[i].value]

\* the end of Dashboard._log: drop the oldest message when over the maximum
Trim(log) == IF Len(log) > max_log_messages THEN Tail(log) ELSE log

\* Dashboard._log called in the render thread: append, then trim
Log(log, msg) == Trim(Append(log, msg))

\* ------------------------------------------------------------------ run()
\* a drain that stops after the first pair of a batch
ApplyBatchFirstPair(its, batch) ==
    IF batch = <<>> THEN its
    ELSE [its EXCEPT ![batch[1][1]].value = batch[1][2]]

\* for item, new_value in updated_items: item.value = new_value
RECURSIVE ApplyBatch(_, _)
ApplyBatch(its, batch) ==
    IF batch = <<>> THEN its
    ELSE ApplyBatch([its EXCEPT ![batch[1][1]].value = batch[1][2]], Tail(batch))

\* a drain that takes one batch at most and goes on to the draw
DrainStepOneBatch ==
    /\ pc = "drain"
    /\ pc' = "draw"
    /\ lastKey' = "NONE"
    /\ calls' = <<>>
    /\ IF data_queue = <<>>
       THEN UNCHANGED <<items, data_queue, drained>>
       ELSE /\ items' = ApplyBatch(items, Head(data_queue))
            /\ data_queue' = Tail(data_queue)
            /\ drained' = Append(drained, Head(data_queue))
    /\ UNCHANGED <<current_grid_x, current_grid_y, cycle, running, editing,
                   inverted_colors, drawn, draw_order, err, pre_values,
                   log_messages, poll_vars, keyboard, setup_vars>>

\* a drain that takes the newest batch of the queue first
DrainStepNewestFirst ==
    /\ pc = "drain"
    /\ IF data_queue = <<>>
       THEN /\ pc' = "draw"
            /\ lastKey' = "NONE"
            /\ calls' = <<>>
            /\ UNCHANGED <<items, data_queue, drained>>
       ELSE /\ items' = ApplyBatch(items, data_queue[Len(data_queue)])
            /\ data_queue' = SubSeq(data_queue, 1, Len(data_queue) - 1)
            /\ drained' = Append(drained, data_queue[Len(data_queue)])
            /\ pc' = "drain"
            /\ UNCHANGED <<lastKey, calls>>
    /\ UNCHANGED <<current_grid_x, current_grid_y, cycle, running, editing,
                   inverted_colors, drawn, draw_order, err, pre_values,
                   log_messages, poll_vars, keyboard, setup_vars>>

\* one turn of "while not self._data_queue.empty()": the loop ends on an
\* empty queue, otherwise the oldest batch is removed and applied
DrainStep ==
    /\ pc = "drain"
    /\ IF data_queue = <<>>
       THEN /\ pc' = "draw"
            /\ lastKey' = "NONE"
            /\ calls' = <<>>
            /\ UNCHANGED <<items, data_queue, drained>>
       ELSE /\ items' = ApplyBatch(items, Head(data_queue))
            /\ data_queue' = Tail(data_queue)
            /\ drained' = Append(drained, Head(data_queue))
            /\ pc' = "drain"
            /\ UNCHANGED <<lastKey, calls>>
    /\ UNCHANGED <<current_grid_x, current_grid_y, cycle, running, editing,
                   inverted_colors, drawn, draw_order, err, pre_values,
                   log_messages, poll_vars, keyboard, setup_vars>>

\* a selection test that compares the column only
SelectedByColumn(item, x, y) ==
    IF item.navigable THEN item.xgrid = Some(x) ELSE FALSE

\* selected, as computed for one item in the draw loop
Selected(item, x, y) ==
    IF item.navigable THEN item.xgrid = Some(x) /\ item.ygrid = Some(y) ELSE FALSE

\* Dashboard._draw_log writes message i on row height - max_log_messages + i:
\* a list longer than max_log_messages reaches a row below the window, where
\* addstr raises curses.error
DrawLogFits(log) == Len(log) <= max_log_messages

\* what tells the items apart on the screen: the attributes given to the
\* constructor, which no handler changes
Identity(item) ==
    [kind |-> item.kind, xgrid |-> item.xgrid, ygrid |-> item.ygrid,
     channel |-> item.channel, data |-> item.data, action |-> item.action]

\* a draw loop that goes through the list backwards
RECURSIVE DrawItemsReversed(_, _)
DrawItemsReversed(its, i) ==
    IF i > Len(its) THEN <<>>
    ELSE DrawItemsReversed(its, i + 1) \o <<Identity(its[i])>>

\* "for i, item in enumerate(self.items): item.draw(...)": the draw calls
\* from the i-th item on, in the order they are made
RECURSIVE DrawItems(_, _)
DrawItems(its, i) ==
    IF i > Len(its) THEN <<>>
    ELSE <<Identity(its[i])>> \o DrawItems(its, i + 1)

\* erase, draw header, every item, controls and, if shown, the log,
\* refresh; an exception of the log drawing leaves run() through the finally
\* clause
Draw ==
    /\ pc = "draw"
    /\ drawn' = [i \in ItemIdx |-> Selected(items[i], current_grid_x, current_grid_y)]
    /\ draw_order' = DrawItems(items, 1)
    /\ IF show_log => DrawLogFits(log_messages)
       THEN /\ pc' = "input"
            /\ UNCHANGED <<running, err>>
       ELSE /\ pc' = "crashed"
            /\ err' = "curses.error"
            /\ running' = FALSE
    /\ UNCHANGED <<items, current_grid_x, current_grid_y, cycle, editing,
                   inverted_colors, lastKey, calls, drained, pre_values,
                   log_messages, data_queue, poll_vars, keyboard, setup_vars>>

\* ------------------------------------------------------------------ input
\* Dashboard._get_item_at_grid: index of the first navigable item at (x, y),
\* 0 for None
GetItemAtGrid(its, x, y) ==
    LET hits == {i \in DOMAIN its : /\ its[i].navigable
                                     /\ its[i].xgrid = Some(x)
                                     /\ its[i].ygrid = Some(y)}
    IN  IF hits = {} THEN 0
        ELSE CHOOSE i \in hits : \A j \in hits : i <= j

Navigable(its) == {i \in DOMAIN its : its[i].navigable}

\* max(item.xgrid for item in navigable_items), likewise for ygrid
MaxX(its) == CHOOSE m \in {its[i].xgrid[1] : i \in Navigable(its)} :
                 \A i \in Navigable(its) : its[i].xgrid[1] <= m
MaxY(its) == CHOOSE m \in {its[i].ygrid[1] : i \in Navigable(its)} :
                 \A i \in Navigable(its) : its[i].ygrid[1] <= m

\* arrow keys that ignore the cycle setting and stop at the bounds
MoveCursorNoWrap(key, x, y, max_x, max_y, cyc) ==
    CASE key = "KEY_UP" -> IF y > 0 THEN <<x, y - 1>> ELSE <<x, y>>
      [] key = "KEY_DOWN" -> IF y < max_y THEN <<x, y + 1>> ELSE <<x, y>>
      [] key = "KEY_LEFT" -> IF x > 0 THEN <<x - 1, y>> ELSE <<x, y>>
      [] key = "KEY_RIGHT" -> IF x < max_x THEN <<x + 1, y>> ELSE <<x, y>>

\* arrow keys that, with cycling off, test the upper bound with <= instead of <
MoveCursorOffByOne(key, x, y, max_x, max_y, cyc) ==
    CASE key = "KEY_UP" ->
           IF cyc THEN <<x, (y - 1) % (max_y + 1)>>
           ELSE IF y > 0 THEN <<x, y - 1>> ELSE <<x, y>>
      [] key = "KEY_DOWN" ->
           IF cyc THEN <<x, (y + 1) % (max_y + 1)>>
           ELSE IF y <= max_y THEN <<x, y + 1>> ELSE <<x, y>>
      [] key = "KEY_LEFT" ->
           IF cyc THEN <<(x - 1) % (max_x + 1), y>>
           ELSE IF x > 0 THEN <<x - 1, y>> ELSE <<x, y>>
      [] key = "KEY_RIGHT" ->
           IF cyc THEN <<(x + 1) % (max_x + 1), y>>
           ELSE IF x <= max_x THEN <<x + 1, y>> ELSE <<x, y>>

\* arrow keys that, with cycling on, wrap one cell past the last row or column
MoveCursorWrapsPastMax(key, x, y, max_x, max_y, cyc) ==
    CASE key = "KEY_UP" ->
           IF cyc THEN <<x, (y - 1) % (max_y + 2)>>
           ELSE IF y > 0 THEN <<x, y - 1>> ELSE <<x, y>>
      [] key = "KEY_DOWN" ->
           IF cyc THEN <<x, (y + 1) % (max_y + 2)>>
           ELSE IF y < max_y THEN <<x, y + 1>> ELSE <<x, y>>
      [] key = "KEY_LEFT" ->
           IF cyc THEN <<(x - 1) % (max_x + 2), y>>
           ELSE IF x > 0 THEN <<x - 1, y>> ELSE <<x, y>>
      [] key = "KEY_RIGHT" ->
           IF cyc THEN <<(x + 1) % (max_x + 2), y>>
           ELSE IF x < max_x THEN <<x + 1, y>> ELSE <<x, y>>

\* the arrow-key branches of _handle_navigation_input: the new (x, y)
MoveCursor(key, x, y, max_x, max_y, cyc) ==
    CASE key = "KEY_UP" ->
           IF cyc THEN <<x, (y - 1) % (max_y + 1)>>
           ELSE IF y > 0 THEN <<x, y - 1>> ELSE <<x, y>>
      [] key = "KEY_DOWN" ->
           IF cyc THEN <<x, (y + 1) % (max_y + 1)>>
           ELSE IF y < max_y THEN <<x, y + 1>> ELSE <<x, y>>
      [] key = "KEY_LEFT" ->
           IF cyc THEN <<(x - 1) % (max_x + 1), y>>
           ELSE IF x > 0 THEN <<x - 1, y>> ELSE <<x, y>>
      [] key = "KEY_RIGHT" ->
           IF cyc THEN <<(x + 1) % (max_x + 1), y>>
           ELSE IF x < max_x THEN <<x + 1, y>> ELSE <<x, y>>

\* self.instruments[item.channel] finds an instrument
Registered(item) == item.channel # None /\ item.channel[1] \in DOMAIN instruments

\* a dispatch that always passes the item's cached value along
CallWithValue(item, args) ==
    [channel |-> item.channel[1], action |-> item.action, args |-> <<item.value>>]

\* instrument.action(item.action, *args) as seen by the dashboard
Call(item, args) == [channel |-> item.channel[1], action |-> item.action, args |-> args]

\* what one key does in Navigating.  outcomes: "loop" (return True), "stop"
\* (return False) or the exception that leaves run(); an instrument's action
\* may raise.  Unpacking the None that _get_item_at_grid returns for an empty
\* cell is a TypeError, a channel without instrument a KeyError; the
\* "No instrument found" branch is never taken, an Instrument being truthy.
NavResult(key) ==
    LET same == [x |-> current_grid_x, y |-> current_grid_y, editing |-> editing,
                 items |-> items, inverted |-> inverted_colors,
                 log |-> log_messages, calls |-> <<>>, outcomes |-> {"loop"}]
        toggled == [same EXCEPT !.inverted = ~inverted_colors]
        quit == [same EXCEPT !.outcomes = {"stop"}]
    IN  IF Navigable(items) = {}
        THEN IF key = "i" THEN toggled
             ELSE IF key = "q" THEN quit
             ELSE same
        ELSE IF key \in ArrowKeys
        THEN LET c == MoveCursor(key, current_grid_x, current_grid_y,
                                 MaxX(items), MaxY(items), cycle)
             IN  [same EXCEPT !.x = c[1], !.y = c[2]]
        ELSE IF key = "ENTER"
        THEN LET idx == GetItemAtGrid(items, current_grid_x, current_grid_y)
             IN  IF idx = 0
                 THEN [same EXCEPT !.outcomes = {"TypeError"}]
                 ELSE IF items[idx].editable
                 THEN [same EXCEPT !.editing = TRUE,
                                   !.items = [items EXCEPT ![idx] = EnterEdit(@)]]
                 ELSE IF items[idx].channel = None \/ items[idx].action = None
                 THEN [same EXCEPT !.log = Log(log_messages, "Warning: missing channel or action")]
                 ELSE IF Registered(items[idx])
                 THEN [same EXCEPT !.calls = <<Call(items[idx], <<>>)>>,
                                   !.outcomes = {"loop", "ActionError"}]
                 ELSE [same EXCEPT !.outcomes = {"KeyError"}]
        ELSE IF key = "i" THEN toggled
        ELSE IF key = "q" THEN quit
        ELSE same

\* what one key does in Editing (_handle_edit_input)
EditResult(key) ==
    LET same == [x |-> current_grid_x, y |-> current_grid_y, editing |-> editing,
                 items |-> items, inverted |-> inverted_colors,
                 log |-> log_messages, calls |-> <<>>, outcomes |-> {"loop"}]
        idx == GetItemAtGrid(items, current_grid_x, current_grid_y)
    IN  IF idx = 0
        THEN [same EXCEPT !.outcomes = {"TypeError"}]
        ELSE LET r == HandleEditKey(items[idx], key)
             IN  IF r.end
                 THEN LET done == [same EXCEPT !.editing = FALSE,
                                       !.items = [items EXCEPT ![idx] = ExitEdit(r.item)]]
                      IN  IF r.commit # NoneVal
                          THEN IF Registered(r.item)
                               THEN [done EXCEPT !.calls = <<Call(r.item, <<r.commit>>)>>,
                                                 !.outcomes = {"loop", "ActionError"}]
                               ELSE [done EXCEPT !.outcomes = {"KeyError"}]
                          ELSE done
                 ELSE [same EXCEPT !.items = [items EXCEPT ![idx] = r.item]]

\* Dashboard._handle_input
InputResult(key) ==
    IF key = "NONE"
    THEN [x |-> current_grid_x, y |-> current_grid_y, editing |-> editing,
          items |-> items, inverted |-> inverted_colors,
          log |-> log_messages, calls |-> <<>>, outcomes |-> {"loop"}]
    ELSE IF editing THEN EditResult(key) ELSE NavResult(key)

\* the keyboard model never types past MaxBufLen characters
Typable(key) ==
    (editing /\ key \in TypedChars) =>
        \A i \in ItemIdx : items[i].editing => Len(items[i].edit_buffer.str) < MaxBufLen

\* the input step of run(): read one key, handle it, then loop, break or
\* leave through the finally clause
HandleInput ==
    /\ pc = "input"
    /\ \E key \in keyboard :
         /\ Typable(key)
         /\ LET r == InputResult(key)
            IN  \E o \in r.outcomes :
                  /\ lastKey' = key
                  /\ current_grid_x' = r.x
                  /\ current_grid_y' = r.y
                  /\ editing' = r.editing
                  /\ items' = r.items
                  /\ inverted_colors' = r.inverted
                  /\ log_messages' = r.log
                  /\ calls' = r.calls
                  /\ pc' = CASE o = "loop" -> "drain"
                             [] o = "stop" -> "stopped"
                             [] OTHER -> "crashed"
                  /\ err' = IF o \in {"loop", "stop"} THEN err ELSE o
                  /\ running' = (o = "loop")
                  /\ drained' = <<>>
                  /\ pre_values' = Values(r.items)
    /\ UNCHANGED <<cycle, drawn, draw_order, data_queue, poll_vars, keyboard, setup_vars>>

\* an input failure that ends run()
InputErrorEndsRun ==
    /\ pc = "input"
    /\ lastKey' = "ERR"
    /\ calls' = <<>>
    /\ pc' = "crashed"
    /\ err' = "curses.error"
    /\ running' = FALSE
    /\ drained' = <<>>
    /\ pre_values' = Values(items)
    /\ UNCHANGED <<items, current_grid_x, current_grid_y, cycle, editing,
                   inverted_colors, drawn, draw_order, log_messages, data_queue, poll_vars, keyboard, setup_vars>>

\* getch() raising curses.error counts as no input
InputError ==
    /\ pc = "input"
    /\ lastKey' = "ERR"
    /\ calls' = <<>>
    /\ pc' = "drain"
    /\ drained' = <<>>
    /\ pre_values' = Values(items)
    /\ UNCHANGED <<items, current_grid_x, current_grid_y, cycle, running, editing,
                   inverted_colors, drawn, draw_order, err, log_messages, data_queue, poll_vars, keyboard, setup_vars>>

RenderNext == DrainStep \/ Draw \/ HandleInput \/ InputError

\* ------------------------------------------------------------------ poll loop
\* Instrument.data of the example instruments: a field may hold None
DataOff == [power |-> BoolVal(FALSE), target |-> NoneVal, value |-> FloatVal(FALSE, 0, 0)]
DataOn == [power |-> BoolVal(TRUE), target |-> FloatVal(FALSE, 8, 0), value |-> FloatVal(FALSE, 5, 1)]
\* the snapshots an update_data call may leave behind
DataStates == {DataOff, DataOn}

\* dict.get: None for a missing key
Get(data, field) == IF field \in DOMAIN data THEN data[field] ELSE NoneVal

\* the items collected for a channel when its update is submitted, in item order
RECURSIVE BoundItems(_, _, _)
BoundItems(its, ch, i) ==
    IF i > Len(its) THEN <<>>
    ELSE IF its[i].channel = Some(ch) /\ its[i].data # None
         THEN <<i>> \o BoundItems(its, ch, i + 1)
         ELSE BoundItems(its, ch, i + 1)

\* updates that keep the pairs whose new value is None
RECURSIVE UpdatesKeepNone(_, _, _)
UpdatesKeepNone(its, insts, idxs) ==
    IF idxs = <<>> THEN <<>>
    ELSE << <<Head(idxs), Get(insts[its[Head(idxs)].channel[1]], its[Head(idxs)].data[1])>> >>
            \o UpdatesKeepNone(its, insts, Tail(idxs))

\* updates that stop after the first item
UpdatesFirstOnly(its, insts, idxs) ==
    IF idxs = <<>> THEN <<>>
    ELSE LET i == Head(idxs)
             v == Get(insts[its[i].channel[1]], its[i].data[1])
         IN  IF v # NoneVal THEN << <<i, v>> >> ELSE <<>>

\* instrument_updates: the (item, new_value) pairs with a non-None value
RECURSIVE Updates(_, _, _)
Updates(its, insts, idxs) ==
    IF idxs = <<>> THEN <<>>
    ELSE LET i == Head(idxs)
             v == Get(insts[its[i].channel[1]], its[i].data[1])
         IN  IF v # NoneVal
             THEN << <<i, v>> >> \o Updates(its, insts, Tail(idxs))
             ELSE Updates(its, insts, Tail(idxs))

\* no future, as in "future_to_items = {}"
NoFutures == [c \in {} |-> "running"]

\* the update_data calls a cycle stops waiting for: those still running
Abandon(ab, futs) ==
    [c \in DOMAIN ab |->
        IF c \in DOMAIN futs /\ futs[c] = "running" THEN ab[c] + 1 ELSE ab[c]]

\* ThreadPoolExecutor(max_workers=None): min(32, os.cpu_count() + 4) threads,
\* on a machine with one processor
DefaultWorkers == 5

RECURSIVE SumOver(_, _)
SumOver(f, S) ==
    IF S = {} THEN 0
    ELSE LET c == CHOOSE d \in S : TRUE IN f[c] + SumOver(f, S \ {c})

\* the worker threads of the executor that are inside an update_data call,
\* of this cycle or left behind by an earlier one
BusyWorkers(futs, ab) ==
    Cardinality({c \in DOMAIN futs : futs[c] = "running"}) + SumOver(ab, DOMAIN ab)

\* executor.submit: the call starts on a worker thread if one is idle or can
\* still be created, else it waits in the executor's work queue
Submitted(futs, ab) ==
    IF BusyWorkers(futs, ab) < data_update_workers THEN "running" ELSE "pending"

\* top of "while self._running" and the whole for loop over a registry that
\* nothing changes meanwhile: submit update_data for every instrument
PollSubmit ==
    /\ pollpc = "submit"
    /\ IF running
       THEN /\ futures' = [c \in DOMAIN instruments |-> "running"]
            /\ future_to_items' = [c \in DOMAIN instruments |-> BoundItems(items, c, 1)]
            /\ pollpc' = "collect"
       ELSE /\ pollpc' = "exited"
            /\ UNCHANGED <<futures, future_to_items>>
    /\ UNCHANGED <<render_vars, instruments, iter_used, abandoned,
                   log_messages, data_queue, keyboard, setup_vars>>

\* a worker runs instrument.update_data(): it refreshes the data or raises
UpdateData ==
    /\ \E c \in DOMAIN futures :
         /\ futures[c] = "running"
         /\ \E d \in DataStates, ok \in BOOLEAN :
              /\ instruments' = [instruments EXCEPT ![c] = d]
              /\ futures' = [futures EXCEPT ![c] = IF ok THEN "done" ELSE "failed"]
    /\ UNCHANGED <<render_vars, pollpc, future_to_items, iter_used, abandoned,
                   log_messages, data_queue, keyboard, setup_vars>>

\* a collect loop that stores the new values in the items itself
PollCollectWritesItems ==
    /\ pollpc = "collect"
    /\ \E c \in DOMAIN futures :
         /\ futures[c] \in {"done", "failed"}
         /\ futures' = [futures EXCEPT ![c] = "collected"]
         /\ items' = IF futures[c] = "done"
                     THEN ApplyBatch(items, Updates(items, instruments, future_to_items[c]))
                     ELSE items
    /\ UNCHANGED <<current_grid_x, current_grid_y, cycle, running, editing,
                   inverted_colors, pc, drawn, draw_order, err, lastKey, calls, drained, pre_values,
                   instruments, pollpc, future_to_items, iter_used, abandoned,
                   log_messages, data_queue, keyboard, setup_vars>>

\* a collect loop that a raising update_data ends: the futures not handled
\* yet are dropped
PollCollectFailureEndsCycle ==
    /\ pollpc = "collect"
    /\ \E c \in DOMAIN futures :
         /\ futures[c] \in {"done", "failed"}
         /\ IF futures[c] = "done"
            THEN LET instrument_updates == Updates(items, instruments, future_to_items[c])
                 IN  /\ Len(data_queue) + Len(drained) < MaxQueue
                     /\ futures' = [futures EXCEPT ![c] = "collected"]
                     /\ data_queue' = IF instrument_updates # <<>>
                                      THEN Append(data_queue, instrument_updates)
                                      ELSE data_queue
                     /\ UNCHANGED <<log_messages, pollpc>>
            ELSE /\ futures' = [d \in DOMAIN futures |-> "collected"]
                 /\ log_messages' = Append(log_messages, "Error updating instrument")
                 /\ pollpc' = "log_collect"
                 /\ UNCHANGED data_queue
    /\ UNCHANGED <<render_vars, instruments, future_to_items, iter_used, abandoned, keyboard, setup_vars>>

\* one turn of "for future in as_completed(...)" for a finished future:
\* enqueue the instrument's non-empty batch, or enter _log with the error
\* future.result() raised (the message is appended; PollLogTrim is the rest
\* of _log)
PollCollect ==
    /\ pollpc = "collect"
    /\ \E c \in DOMAIN futures :
         /\ futures[c] \in {"done", "failed"}
         /\ futures' = [futures EXCEPT ![c] = "collected"]
         /\ IF futures[c] = "done"
            THEN LET instrument_updates == Updates(items, instruments, future_to_items[c])
                 IN  /\ Len(data_queue) + Len(drained) < MaxQueue
                     /\ data_queue' = IF instrument_updates # <<>>
                                      THEN Append(data_queue, instrument_updates)
                                      ELSE data_queue
                     /\ UNCHANGED <<log_messages, pollpc>>
            ELSE /\ log_messages' = Append(log_messages, "Error updating instrument")
                 /\ pollpc' = "log_collect"
                 /\ UNCHANGED data_queue
    /\ UNCHANGED <<render_vars, instruments, future_to_items, iter_used, abandoned, keyboard, setup_vars>>

\* the poll thread finishes _log: "if len(...) > max: pop(0)", then goes on
\* with the collect loop or with the back-off sleep
PollLogTrim ==
    /\ pollpc \in {"log_collect", "log_backoff"}
    /\ log_messages' = Trim(log_messages)
    /\ pollpc' = IF pollpc = "log_collect" THEN "collect" ELSE "backoff"
    /\ UNCHANGED <<render_vars, instruments, futures, future_to_items, iter_used,
                   abandoned, data_queue, keyboard, setup_vars>>

\* every future was handled: time.sleep(self._data_update_interval)
PollSleep ==
    /\ pollpc = "collect"
    /\ \A c \in DOMAIN futures : futures[c] = "collected"
    /\ pollpc' = "submit"
    /\ UNCHANGED <<render_vars, instruments, futures, future_to_items, iter_used,
                   abandoned, log_messages, data_queue, keyboard, setup_vars>>

\* the poll loop while every update_data call returns or raises before the
\* 60 s timeout of as_completed and the registry is complete
PollNext == PollSubmit \/ UpdateData \/ PollCollect \/ PollLogTrim \/ PollSleep

\* ---------------------------------------------- poll loop, step by step
\* the same loop with its for loop over the registry taken one turn at a
\* time, the timeout of as_completed and the outer except clause: needed
\* while add_instruments runs beside the poll thread or update_data hangs

\* a layout for it: one instrument and two items bound to it; "target" is
\* None until the instrument sets it
LayoutPoll ==
    [instruments |-> {0},
     items |-> << Readonly(0, "value"), Readonly(0, "target") >>]

\* "while self._running:", "future_to_items = {}" and the iterator of
\* self.instruments.items(), which remembers the size of the dict
PollLoopTop ==
    /\ pollpc = "submit"
    /\ IF running
       THEN /\ pollpc' = "iterate"
            /\ iter_used' = Cardinality(DOMAIN instruments)
            /\ futures' = NoFutures
            /\ future_to_items' = [c \in {} |-> <<>>]
       ELSE /\ pollpc' = "exited"
            /\ UNCHANGED <<iter_used, futures, future_to_items>>
    /\ UNCHANGED <<render_vars, instruments, abandoned, log_messages, data_queue, keyboard, setup_vars>>

\* one turn of "for channel, instrum in self.instruments.items()".  The dict
\* iterator raises RuntimeError when the dict has changed size since the
\* iteration began: the outer except clause enters _log and the calls already
\* submitted are left behind.  Otherwise the next instrument, in order of
\* registration, is submitted with the items bound to it, or the loop ends.
PollSubmitOne ==
    /\ pollpc = "iterate"
    /\ IF Cardinality(DOMAIN instruments) # iter_used
       THEN /\ log_messages' = Append(log_messages, "Error updating instrument data")
            /\ pollpc' = "log_backoff"
            /\ abandoned' = Abandon(abandoned, futures)
            /\ futures' = NoFutures
            /\ future_to_items' = [c \in {} |-> <<>>]
       ELSE /\ IF DOMAIN instruments \ DOMAIN futures # {}
               THEN LET ch == CHOOSE c \in DOMAIN instruments \ DOMAIN futures :
                                 \A d \in DOMAIN instruments \ DOMAIN futures : c <= d
                    IN  /\ futures' = [c \in DOMAIN futures \cup {ch} |->
                                          IF c = ch THEN Submitted(futures, abandoned)
                                          ELSE futures[c]]
                        /\ future_to_items' =
                               [c \in DOMAIN futures \cup {ch} |->
                                   IF c = ch THEN BoundItems(items, ch, 1)
                                   ELSE future_to_items[c]]
                        /\ pollpc' = "iterate"
               ELSE /\ pollpc' = "collect"
                    /\ UNCHANGED <<futures, future_to_items>>
            /\ UNCHANGED <<abandoned, log_messages>>
    /\ UNCHANGED <<render_vars, instruments, iter_used, data_queue, keyboard, setup_vars>>

\* a timeout after which the same futures are waited for again
PollTimeoutRetries ==
    /\ pollpc = "collect"
    /\ \E c \in DOMAIN futures : futures[c] = "running"
    /\ log_messages' = Append(log_messages, "Error updating instrument data")
    /\ pollpc' = "log_collect"
    /\ UNCHANGED <<render_vars, instruments, futures, future_to_items, iter_used,
                   abandoned, data_queue, keyboard, setup_vars>>

\* as_completed raises TimeoutError, 60 s after the cycle began to collect,
\* while a future is unfinished: the outer except clause enters _log; the
\* cycle's futures are dropped, the calls still running are left behind
PollTimeout ==
    /\ pollpc = "collect"
    /\ \E c \in DOMAIN futures : futures[c] \in {"running", "pending"}
    /\ \A c \in DOMAIN futures :
           futures[c] = "running" =>
               \/ abandoned[c] < MaxAbandoned
               \/ BusyWorkers(futures, abandoned) >= data_update_workers
    /\ abandoned' = Abandon(abandoned, futures)
    /\ futures' = NoFutures
    /\ future_to_items' = [c \in {} |-> <<>>]
    /\ log_messages' = Append(log_messages, "Error updating instrument data")
    /\ pollpc' = "log_backoff"
    /\ UNCHANGED <<render_vars, instruments, iter_used, data_queue, keyboard, setup_vars>>

\* a back-off that gives the loop up
PollBackoffExits ==
    /\ pollpc = "backoff"
    /\ pollpc' = "exited"
    /\ UNCHANGED <<render_vars, instruments, futures, future_to_items, iter_used,
                   abandoned, log_messages, data_queue, keyboard, setup_vars>>

\* time.sleep(1.0) of the outer except clause, then back to the loop test
PollBackoff ==
    /\ pollpc = "backoff"
    /\ pollpc' = "submit"
    /\ UNCHANGED <<render_vars, instruments, futures, future_to_items, iter_used,
                   abandoned, log_messages, data_queue, keyboard, setup_vars>>

\* an update_data call that was left behind returns or raises at last:
\* only the instrument's data shows it
UpdateDataAbandoned ==
    /\ \E c \in DOMAIN abandoned :
         /\ abandoned[c] > 0
         /\ abandoned' = [abandoned EXCEPT ![c] = @ - 1]
         /\ \E d \in DataStates : instruments' = [instruments EXCEPT ![c] = d]
    /\ UNCHANGED <<render_vars, pollpc, futures, future_to_items, iter_used,
                   log_messages, data_queue, keyboard, setup_vars>>

\* a worker thread that became idle takes a waiting call from the work queue
PoolStart ==
    /\ BusyWorkers(futures, abandoned) < data_update_workers
    /\ \E c \in DOMAIN futures :
         /\ futures[c] = "pending"
         /\ futures' = [futures EXCEPT ![c] = "running"]
    /\ UNCHANGED <<render_vars, instruments, pollpc, future_to_items, iter_used,
                   abandoned, log_messages, data_queue, keyboard, setup_vars>>

\* the instrument whose update_data never returns
HungChannel == 1

\* update_data of an instrument that answers
UpdateDataOthers ==
    /\ UpdateData
    /\ HungChannel \in DOMAIN futures => futures'[HungChannel] = futures[HungChannel]

\* the timeout while every other instrument answers well within the 60 s:
\* as_completed has handed over every finished call, the calls still running
\* are those of the hung instrument and no waiting call can start
PollTimeoutHung ==
    /\ \A c \in DOMAIN futures :
           /\ futures[c] \notin {"done", "failed"}
           /\ futures[c] = "running" => c = HungChannel
    /\ (\E c \in DOMAIN futures : futures[c] = "pending") =>
           BusyWorkers(futures, abandoned) >= data_update_workers
    /\ PollTimeout

\* the poll loop with one instrument that never answers
PollLoopHung ==
    \/ PollLoopTop \/ PollSubmitOne \/ PoolStart \/ UpdateDataOthers \/ PollCollect
    \/ PollLogTrim \/ PollTimeoutHung \/ PollBackoff

PollLoop ==
    \/ PollLoopTop \/ PollSubmitOne \/ UpdateData \/ PollCollect \/ PollLogTrim
    \/ PollSleep \/ PollTimeout \/ PollBackoff \/ UpdateDataAbandoned

\* an Instrument as add_instruments leaves it: the logger set to Dashboard._log
NewInstrument(ch) == [channel |-> ch, logger |-> Some("Dashboard._log")]

\* add_instruments called with one instrument for each of the channels, in
\* channel order: the instruments added
RECURSIVE AddedInOrder(_)
AddedInOrder(chs) ==
    IF chs = {} THEN <<>>
    ELSE LET m == CHOOSE c \in chs : \A d \in chs : c <= d
         IN  <<NewInstrument(m)>> \o AddedInOrder(chs \ {m})

\* an add_instruments that keeps the instrument a channel already has
AddInstrumentKeepsFirst(ch) ==
    /\ added' = Append(added, NewInstrument(ch))
    /\ owner' = [c \in DOMAIN owner \cup {ch} |->
                    IF c \in DOMAIN owner THEN owner[c] ELSE Len(added) + 1]
    /\ instruments' = [c \in DOMAIN instruments \cup {ch} |->
                          IF c \in DOMAIN instruments THEN instruments[c] ELSE DataOff]

\* one turn of "for new in instruments" in Dashboard.add_instruments, for a
\* new instrument of channel ch: its logger is set and the registry entry of
\* its channel is made or replaced
AddInstrument(ch) ==
    /\ added' = Append(added, NewInstrument(ch))
    /\ owner' = [c \in DOMAIN owner \cup {ch} |->
                    IF c = ch THEN Len(added) + 1 ELSE owner[c]]
    /\ instruments' = [c \in DOMAIN instruments \cup {ch} |->
                          IF c = ch THEN DataOff ELSE instruments[c]]

\* Dashboard.add_instruments in the main thread before run(): the next
\* instrument of the layout is registered
AddInstruments ==
    /\ pc = "setup"
    /\ \E ch \in LayoutPoll.instruments \ DOMAIN instruments :
         /\ \A c \in LayoutPoll.instruments \ DOMAIN instruments : ch <= c
         /\ AddInstrument(ch)
    /\ UNCHANGED <<render_vars, pollpc, futures, future_to_items, iter_used,
                   abandoned, log_messages, data_queue, keyboard,
                   max_log_messages, show_log, position, data_update_workers>>

\* Dashboard.add_instruments with an instrument of any channel, one already
\* registered included
AddAnyInstrument ==
    /\ pc = "setup"
    /\ Len(added) < MaxAdded
    /\ \E ch \in 0..MaxChannel : AddInstrument(ch)
    /\ UNCHANGED <<render_vars, pollpc, futures, future_to_items, iter_used,
                   abandoned, log_messages, data_queue, keyboard,
                   max_log_messages, show_log, position, data_update_workers>>

\* the messages of the dashboard itself
LogTexts == {"Warning: missing channel or action", "Error updating instrument",
             "Error updating instrument data"}

\* Dashboard._log called from one thread, as its own warnings are and the
\* messages an instrument sends through its logger
LogMessage ==
    /\ \E msg \in LogTexts : log_messages' = Log(log_messages, msg)
    /\ UNCHANGED <<render_vars, poll_vars, data_queue, keyboard, setup_vars>>

\* Dashboard.set_max_logs(max_number)
SetMaxLogs ==
    /\ \E max_number \in 0..(MaxLogMessages + 1) : max_log_messages' = max_number
    /\ UNCHANGED <<render_vars, poll_vars, log_messages, data_queue, keyboard,
                   added, owner, show_log, position, data_update_workers>>

\* Dashboard.show_log(show)
ShowLog ==
    /\ \E show \in BOOLEAN :
         /\ show_log' = show
         /\ max_log_messages' = IF show THEN max_log_messages ELSE 0
    /\ UNCHANGED <<render_vars, poll_vars, log_messages, data_queue, keyboard,
                   added, owner, position, data_update_workers>>

\* the widgets a program hands to add_items
ItemCatalogue ==
    {Label, Readonly(0, "value"),
     Switch(0, 0, Some(0), Some("power"), Some("power_switch")),
     Editable(1, 0, 0, "target", "set_target")}

\* the argument lists of one add_items call
ItemArgs ==
    {<<a>> : a \in ItemCatalogue} \cup {<<a, b>> : a, b \in ItemCatalogue}

\* Dashboard.add_items(*items): "for new in items: self.items.append(new)"
AddItems ==
    /\ pc = "setup"
    /\ \E new \in ItemArgs :
         /\ Len(items) + Len(new) <= MaxItems
         /\ items' = items \o new
    /\ drawn' = [i \in DOMAIN items' |-> FALSE]
    /\ pre_values' = Values(items')
    /\ UNCHANGED <<current_grid_x, current_grid_y, cycle, running, editing,
                   inverted_colors, pc, draw_order, err, lastKey, calls, drained,
                   poll_vars, log_messages, data_queue, keyboard, setup_vars>>

\* the placement attributes a widget can be built with: whole-number
\* positions and offsets of either sign, the alignments and coordinate systems
\* of the library and one unknown name of each
Placements ==
    [x : -MaxPos..MaxPos, y : -MaxPos..MaxPos,
     xoffset : -MaxOffset..MaxOffset, yoffset : -MaxOffset..MaxOffset,
     halign : HAligns \cup {"middle"}, xycoords : XYCoords \cup {"abs"}]

\* the widget's draw asks where its text goes
Place ==
    /\ ~position.called
    /\ position' = [called |-> TRUE, w |-> position.w,
                    text_length |-> position.text_length,
                    result |-> CalculatePosition(position.w, position.text_length)]
    /\ UNCHANGED <<render_vars, poll_vars, log_messages, data_queue, keyboard,
                   added, owner, max_log_messages, show_log, data_update_workers>>

\* the main thread calls run() once every instrument is registered
Run ==
    /\ pc = "setup"
    /\ DOMAIN instruments = LayoutPoll.instruments
    /\ pc' = "drain"
    /\ UNCHANGED <<items, current_grid_x, current_grid_y, cycle, running, editing,
                   inverted_colors, drawn, draw_order, err, lastKey, calls, drained, pre_values,
                   poll_vars, log_messages, data_queue, keyboard, setup_vars>>

\* ------------------------------------------------------------------ specifications
\* Dashboard.__init__, add_instruments, add_items for one layout
Setup(layout, cyc, gx, gy, keys) ==
    /\ items = layout.items
    /\ instruments = [c \in layout.instruments |-> DataOff]
    /\ current_grid_x = gx
    /\ current_grid_y = gy
    /\ cycle = cyc
    /\ running = TRUE
    /\ editing = FALSE
    /\ inverted_colors = FALSE
    /\ log_messages = <<>>
    /\ data_queue = <<>>
    /\ pc = "drain"
    /\ drawn = [i \in DOMAIN layout.items |-> FALSE]
    /\ err = "none"
    /\ lastKey = "NONE"
    /\ calls = <<>>
    /\ drained = <<>>
    /\ pre_values = Values(layout.items)
    /\ pollpc = "submit"
    /\ futures = [c \in layout.instruments |-> "collected"]
    /\ future_to_items = [c \in layout.instruments |-> <<>>]
    /\ iter_used = 0
    /\ abandoned = [c \in layout.instruments |-> 0]
    /\ keyboard = keys
    /\ draw_order = <<>>
    /\ added = AddedInOrder(layout.instruments)
    /\ owner = [c \in layout.instruments |->
                   CHOOSE k \in 1..Cardinality(layout.instruments) :
                       AddedInOrder(layout.instruments)[k].channel = c]
    /\ max_log_messages = MaxLogMessages
    /\ show_log = TRUE
    /\ position = NoPosition
    /\ data_update_workers = DefaultWorkers

\* the whole dashboard: render loop and poll loop, a user who edits and quits
Init ==
    \E gx \in 0..1 :
        Setup(LayoutRow, TRUE, gx, 0, {"NONE", "ENTER", "1", "q"})

Next == RenderNext \/ PollNext

Spec == Init /\ [][Next]_vars

\* the render loop alone, while the poll thread is not scheduled: every
\* layout, both cycle settings, every grid_start, the whole keyboard
InitInput ==
    \E layout \in Layouts, cyc \in BOOLEAN, gx \in 0..MaxGridStart, gy \in 0..MaxGridStart :
        Setup(layout, cyc, gx, gy, Keys)

SpecInput == InitInput /\ [][RenderNext]_vars

\* the dashboard from its construction on: the poll thread is started by
\* __init__ and runs beside add_instruments and run(); update_data may hang;
\* a user who watches and quits.  The items are added first.
InitPoll ==
    /\ items = LayoutPoll.items
    /\ instruments = [c \in {} |-> DataOff]
    /\ current_grid_x = 0
    /\ current_grid_y = 0
    /\ cycle = TRUE
    /\ running = TRUE
    /\ editing = FALSE
    /\ inverted_colors = FALSE
    /\ log_messages = <<>>
    /\ data_queue = <<>>
    /\ pc = "setup"
    /\ drawn = [i \in DOMAIN LayoutPoll.items |-> FALSE]
    /\ err = "none"
    /\ lastKey = "NONE"
    /\ calls = <<>>
    /\ drained = <<>>
    /\ pre_values = Values(LayoutPoll.items)
    /\ pollpc = "submit"
    /\ futures = NoFutures
    /\ future_to_items = [c \in {} |-> <<>>]
    /\ iter_used = 0
    /\ abandoned = [c \in LayoutPoll.instruments |-> 0]
    /\ keyboard = {"NONE", "q"}
    /\ draw_order = <<>>
    /\ added = <<>>
    /\ owner = [c \in {} |-> 1]
    /\ max_log_messages = MaxLogMessages
    /\ show_log = TRUE
    /\ position = NoPosition
    /\ data_update_workers = DefaultWorkers

NextPoll == AddInstruments \/ Run \/ RenderNext \/ PollLoop

SpecPoll == InitPoll /\ [][NextPoll]_vars

\* two instruments polled in every cycle beside a render loop that only
\* drains and draws
InitCollect == Setup(LayoutTwo, TRUE, 0, 0, {"NONE"})

SpecCollect == InitCollect /\ [][Next]_vars

\* two instruments, the second of which hangs, polled by a small pool beside
\* a render loop that only drains and draws
InitHung ==
    /\ items = LayoutTwo.items
    /\ instruments = [c \in LayoutTwo.instruments |-> DataOff]
    /\ current_grid_x = 0
    /\ current_grid_y = 0
    /\ cycle = TRUE
    /\ running = TRUE
    /\ editing = FALSE
    /\ inverted_colors = FALSE
    /\ log_messages = <<>>
    /\ data_queue = <<>>
    /\ pc = "drain"
    /\ drawn = [i \in DOMAIN LayoutTwo.items |-> FALSE]
    /\ err = "none"
    /\ lastKey = "NONE"
    /\ calls = <<>>
    /\ drained = <<>>
    /\ pre_values = Values(LayoutTwo.items)
    /\ pollpc = "submit"
    /\ futures = NoFutures
    /\ future_to_items = [c \in {} |-> <<>>]
    /\ iter_used = 0
    /\ abandoned = [c \in LayoutTwo.instruments |-> 0]
    /\ keyboard = {"NONE"}
    /\ draw_order = <<>>
    /\ added = AddedInOrder(LayoutTwo.instruments)
    /\ owner = [c \in LayoutTwo.instruments |-> c + 1]
    /\ max_log_messages = MaxLogMessages
    /\ show_log = TRUE
    /\ position = NoPosition
    /\ data_update_workers \in 1..MaxWorkers

NextHung == RenderNext \/ PollLoopHung

SpecHung == InitHung /\ [][NextHung]_vars

\* one instrument polled beside the render loop, a user who edits and never
\* quits
InitConsist == Setup(LayoutEdit, TRUE, 0, 0, {"NONE", "ENTER", "1"})

SpecConsist == InitConsist /\ [][Next]_vars

\* a new dashboard: nothing added yet
NewDashboard ==
    /\ items = <<>>
    /\ instruments = [c \in {} |-> DataOff]
    /\ current_grid_x = 0
    /\ current_grid_y = 0
    /\ cycle = TRUE
    /\ running = TRUE
    /\ editing = FALSE
    /\ inverted_colors = FALSE
    /\ log_messages = <<>>
    /\ data_queue = <<>>
    /\ pc = "setup"
    /\ drawn = [i \in {} |-> FALSE]
    /\ err = "none"
    /\ lastKey = "NONE"
    /\ calls = <<>>
    /\ drained = <<>>
    /\ pre_values = Values(<<>>)
    /\ pollpc = "submit"
    /\ futures = NoFutures
    /\ future_to_items = [c \in {} |-> <<>>]
    /\ iter_used = 0
    /\ abandoned = [c \in LayoutPoll.instruments |-> 0]
    /\ keyboard = {"NONE", "q"}
    /\ draw_order = <<>>
    /\ added = <<>>
    /\ owner = [c \in {} |-> 1]
    /\ max_log_messages = MaxLogMessages
    /\ show_log = TRUE
    /\ data_update_workers = DefaultWorkers

InitItems == NewDashboard /\ position = NoPosition

\* widgets added to a new dashboard, then the render loop
NextItems == AddItems \/ AddInstruments \/ Run \/ RenderNext

SpecItems == InitItems /\ [][NextItems]_vars

\* placement alone: a widget built with any placement attributes and a text
\* of any length, then _calculate_position
InitPlace ==
    /\ NewDashboard
    /\ \E w \in Placements, text_length \in -MaxTextLen..MaxTextLen :
         position = [called |-> FALSE, w |-> w, text_length |-> text_length]

SpecPlace == InitPlace /\ [][Place]_vars

\* the log alone: messages logged and the log settings changed, in any order
NextLog == LogMessage \/ SetMaxLogs \/ ShowLog

SpecLog == InitPoll /\ [][NextLog]_vars

\* the registry alone: add_instruments called again and again on a new
\* dashboard
SpecRegistry == InitPoll /\ [][AddAnyInstrument]_vars

\* =================================================================== claims
cursor == <<current_grid_x, current_grid_y>>

\* the item the edit keys go to
EditIdx == GetItemAtGrid(items, current_grid_x, current_grid_y)

\* a step of run() that handles the key lastKey'
KeyStep == pc = "input" /\ lastKey' # "ERR"

\* ------------------------------------------------------------------ C1
RECURSIVE Flatten(_)
Flatten(batches) ==
    IF batches = <<>> THEN <<>> ELSE Head(batches) \o Flatten(Tail(batches))

\* the value the drained batches give item i: that of the last pair naming
\* it, in arrival order; the value it had before the drain if none does
LastValue(i) ==
    LET f == Flatten(drained)
        ks == {k \in 1..Len(f) : f[k][1] = i}
    IN  IF ks = {} THEN pre_values[i]
        ELSE f[CHOOSE k \in ks : \A j \in ks : j <= k][2]

\* C1: when the drain step of a render cycle has ended, every item's cached
\* value is the one given by the last dequeued batch that mentions it, and an
\* item no dequeued batch mentions has the value it had before the drain.
C1_DrainLastWriteWins ==
    pc = "draw" => \A i \in ItemIdx : items[i].value = LastValue(i)

\* two batches drained in one cycle that disagree on one item, a second item
\* only the first batch mentions, and an item no batch mentions
C1_Witness ==
    /\ pc = "draw"
    /\ Len(drained) = 2
    /\ \E i \in ItemIdx :
         /\ \E k \in 1..Len(drained[1]) : drained[1][k][1] = i
         /\ \E k \in 1..Len(drained[2]) : drained[2][k][1] = i
         /\ \E k \in 1..Len(drained[1]), l \in 1..Len(drained[2]) :
              /\ drained[1][k][1] = i
              /\ drained[2][l][1] = i
              /\ drained[1][k][2] # drained[2][l][2]
    /\ \E i \in ItemIdx :
         /\ \E k \in 1..Len(drained[1]) : drained[1][k][1] = i
         /\ \A k \in 1..Len(drained[2]) : drained[2][k][1] # i
    /\ \E i \in ItemIdx : \A k \in 1..Len(Flatten(drained)) : Flatten(drained)[k][1] # i

\* ------------------------------------------------------------------ C2
\* a key handled in Navigating with something navigable on the grid
NavArrowStep ==
    KeyStep /\ ~editing /\ Navigable(items) # {} /\ lastKey' \in ArrowKeys

RowScenario ==
    /\ {<<items[i].xgrid, items[i].ygrid>> : i \in Navigable(items)}
          = {<<Some(0), Some(0)>>, <<Some(1), Some(0)>>}
    /\ cycle

\* C2: with cycling enabled an arrow key in Navigating replaces one cursor
\* coordinate c by (c+1) mod (max+1) (right, down) or (c-1) mod (max+1)
\* (left, up) and leaves the other alone; with navigable items at (0,0) and
\* (1,0), right-arrow takes the cursor from (0,0) to (1,0) and from (1,0)
\* back to (0,0).
C2_CycleModuloWalk ==
    [][ (NavArrowStep /\ cycle) =>
          /\ lastKey' = "KEY_RIGHT" =>
               /\ current_grid_x' = (current_grid_x + 1) % (MaxX(items) + 1)
               /\ current_grid_y' = current_grid_y
          /\ lastKey' = "KEY_LEFT" =>
               /\ current_grid_x' = (current_grid_x - 1) % (MaxX(items) + 1)
               /\ current_grid_y' = current_grid_y
          /\ lastKey' = "KEY_DOWN" =>
               /\ current_grid_y' = (current_grid_y + 1) % (MaxY(items) + 1)
               /\ current_grid_x' = current_grid_x
          /\ lastKey' = "KEY_UP" =>
               /\ current_grid_y' = (current_grid_y - 1) % (MaxY(items) + 1)
               /\ current_grid_x' = current_grid_x
          /\ (RowScenario /\ lastKey' = "KEY_RIGHT" /\ cursor = <<0, 0>>)
               => cursor' = <<1, 0>>
          /\ (RowScenario /\ lastKey' = "KEY_RIGHT" /\ cursor = <<1, 0>>)
               => cursor' = <<0, 0>>
      ]_vars

\* the scenario's second right-arrow: the item at (1,0) was drawn selected,
\* right-arrow was handled, and the cursor is back on (0,0)
C2_Witness ==
    /\ RowScenario
    /\ pc = "drain"
    /\ lastKey = "KEY_RIGHT"
    /\ cursor = <<0, 0>>
    /\ \E i \in ItemIdx : drawn[i] /\ items[i].xgrid = Some(1) /\ items[i].ygrid = Some(0)

\* ------------------------------------------------------------------ C3
\* C3 as stated: with cycling disabled, after any arrow key both cursor
\* coordinates lie in [0, max], whatever grid_start the constructor was given.
C3_ClampsFromAnyStart ==
    [][ (NavArrowStep /\ ~cycle) =>
          /\ current_grid_x' \in 0..MaxX(items)
          /\ current_grid_y' \in 0..MaxY(items)
      ]_vars

\* C3 (amended): with cycling disabled an arrow key moves one coordinate by at
\* most one step and clamps at 0 and max: a coordinate that is in [0, max]
\* before the key is in [0, max] after it, and a coordinate that starts
\* outside (a grid_start beyond the grid) is never moved further out.
C3_ClampsWithinBounds ==
    [][ (NavArrowStep /\ ~cycle) =>
          /\ current_grid_x \in 0..MaxX(items) => current_grid_x' \in 0..MaxX(items)
          /\ current_grid_y \in 0..MaxY(items) => current_grid_y' \in 0..MaxY(items)
          /\ current_grid_x > MaxX(items) => current_grid_x' \in (current_grid_x - 1)..current_grid_x
          /\ current_grid_y > MaxY(items) => current_grid_y' \in (current_grid_y - 1)..current_grid_y
          /\ \/ cursor' = cursor
             \/ /\ current_grid_x' - current_grid_x \in {-1, 1}
                /\ current_grid_y' = current_grid_y
             \/ /\ current_grid_y' - current_grid_y \in {-1, 1}
                /\ current_grid_x' = current_grid_x
      ]_vars

\* right-arrow with the cursor already on the last column: the item there was
\* drawn selected and the cursor has not moved
C3_Witness ==
    /\ ~cycle
    /\ pc = "drain"
    /\ lastKey = "KEY_RIGHT"
    /\ Navigable(items) # {}
    /\ current_grid_x = MaxX(items)
    /\ MaxX(items) > 0
    /\ \E i \in ItemIdx : drawn[i] /\ items[i].xgrid = Some(MaxX(items))

\* ------------------------------------------------------------------ C4
SelectedDrawn == {i \in ItemIdx : drawn[i]}
AtCursor(i) ==
    /\ items[i].navigable
    /\ items[i].xgrid = Some(current_grid_x)
    /\ items[i].ygrid = Some(current_grid_y)
DistinctCells ==
    \A i, j \in Navigable(items) :
        (items[i].xgrid = items[j].xgrid /\ items[i].ygrid = items[j].ygrid) => i = j

\* C4 as stated: in every render cycle (of a dashboard that has navigable
\* items) exactly one navigable item is drawn selected, the one at the cursor,
\* and every other item is drawn unselected.
C4_ExactlyOneSelected ==
    (pc = "input" /\ Navigable(items) # {}) =>
        /\ Cardinality(SelectedDrawn) = 1
        /\ \A i \in ItemIdx : drawn[i] <=> AtCursor(i)

\* C4 (amended): in every render cycle an item is drawn selected if and only
\* if it is navigable and its grid coordinates equal the cursor; so at most one
\* item is drawn selected when the navigable items occupy distinct cells, and
\* exactly one when in addition the cursor is on an occupied cell.  (Nothing
\* is selected while the cursor is on an empty cell or nothing is navigable.)
C4_SelectedIffAtCursor ==
    pc = "input" =>
        /\ \A i \in ItemIdx : drawn[i] <=> AtCursor(i)
        /\ DistinctCells => Cardinality(SelectedDrawn) <= 1
        /\ (DistinctCells /\ EditIdx # 0) => Cardinality(SelectedDrawn) = 1
        /\ EditIdx = 0 => SelectedDrawn = {}

\* a draw with one item selected and another navigable item in the same
\* column left unselected, after the cursor has moved
C4_Witness ==
    /\ pc = "input"
    /\ DistinctCells
    /\ cursor = <<0, 1>>
    /\ \E i, j \in Navigable(items) :
         /\ drawn[i] /\ ~drawn[j]
         /\ items[i].xgrid = items[j].xgrid

\* ------------------------------------------------------------------ C5
InEditMode == {i \in ItemIdx : items[i].editing}

EditCommitStep ==
    KeyStep /\ editing /\ lastKey' = "ENTER" /\ EditIdx # 0
EditBuf == items[EditIdx].edit_buffer.str

\* decimal strings and the numbers they denote, written out by hand
NumberStrings ==
    { <<"1">>, <<"1", "1">>, <<"1", ".">>, <<".", "1">>, <<"-", "1">>,
      <<"1", ".", "1">>, <<"1", "1", ".">>, <<".", "1", "1">>, <<"1", "1", "1">>,
      <<"-", ".", "1">>, <<"-", "1", ".">>, <<"-", "1", "1">> }
NumberOf(s) ==
    CASE s = <<"1">> -> FloatVal(FALSE, 1, 0)
      [] s = <<"1", "1">> -> FloatVal(FALSE, 11, 0)
      [] s = <<"1", ".">> -> FloatVal(FALSE, 1, 0)
      [] s = <<".", "1">> -> FloatVal(FALSE, 1, 1)
      [] s = <<"-", "1">> -> FloatVal(TRUE, 1, 0)
      [] s = <<"1", ".", "1">> -> FloatVal(FALSE, 11, 1)
      [] s = <<"1", "1", ".">> -> FloatVal(FALSE, 11, 0)
      [] s = <<".", "1", "1">> -> FloatVal(FALSE, 11, 2)
      [] s = <<"1", "1", "1">> -> FloatVal(FALSE, 111, 0)
      [] s = <<"-", ".", "1">> -> FloatVal(TRUE, 1, 1)
      [] s = <<"-", "1", ".">> -> FloatVal(TRUE, 1, 0)
      [] s = <<"-", "1", "1">> -> FloatVal(TRUE, 11, 0)
\* strings float() rejects
NotNumberStrings ==
    { <<>>, <<"-">>, <<".">>, <<"-", ".">>, <<"1", "-">>, <<"-", "-">>,
      <<".", ".">>, <<"1", ".", ".">>, <<".", "1", ".">>, <<"-", "-", "1">>,
      <<"1", "-", "1">>, <<"1", ".", "-">>, <<".", "-", "1">> }

\* the call the dashboard makes on the edited item's instrument
CommitCall(v) ==
    << [channel |-> items[EditIdx].channel[1], action |-> items[EditIdx].action,
        args |-> <<v>>] >>

\* C6: the confirm key in Editing with a buffer that parses as a number
\* leaves Editing, stores the parsed number as the item's cached value and
\* calls the item's action on its registered instrument exactly once with
\* that number; float() reads "12.5" as 12.5.
C6_ConfirmCommitsParsedNumber ==
    [][ (EditCommitStep /\ Registered(items[EditIdx])) =>
          /\ EditBuf \in NumberStrings => ParseFloat(EditBuf) = [ok |-> TRUE, val |-> NumberOf(EditBuf)]
          /\ ParseFloat(<<"1", "2", ".", "5">>) = [ok |-> TRUE, val |-> FloatVal(FALSE, 125, 1)]
          /\ ParseFloat(EditBuf).ok =>
               /\ ~editing'
               /\ ~items'[EditIdx].editing
               /\ items'[EditIdx].value = ParseFloat(EditBuf).val
               /\ calls' = CommitCall(ParseFloat(EditBuf).val)
               /\ \A i \in ItemIdx \ {EditIdx} : items'[i] = items[i]
      ]_vars

\* "1.1" was confirmed: Navigating again, the value is 1.1 and the one call
\* made carries 1.1
C6_Witness ==
    /\ pc = "drain"
    /\ lastKey = "ENTER"
    /\ ~editing
    /\ InEditMode = {}
    /\ \E i \in ItemIdx :
         /\ items[i].edit_buffer = StrBuf(<<"1", ".", "1">>)
         /\ items[i].value = FloatVal(FALSE, 11, 1)
         /\ calls = << [channel |-> 0, action |-> Some("set_target"),
                        args |-> <<FloatVal(FALSE, 11, 1)>>] >>

C8_CancelChangesNothing ==
    [][ (KeyStep /\ editing /\ lastKey' = "ESC") =>
          /\ ~editing'
          /\ \A i \in ItemIdx : ~items'[i].editing
          /\ calls' = <<>>
          /\ Values(items') = Values(items)
          /\ cursor' = cursor
          /\ pc' = "drain"
      ]_vars

\* an edit with "-1." in the buffer was cancelled
C8_Witness ==
    /\ pc = "drain"
    /\ lastKey = "ESC"
    /\ ~editing
    /\ calls = <<>>
    /\ \E i \in ItemIdx :
         /\ items[i].edit_buffer = StrBuf(<<"-", "1", ".">>)
         /\ items[i].value = FloatVal(FALSE, 0, 0)

\* ------------------------------------------------------------------ C9
AcceptedChars == {"0", "1", "2", "3", "4", "5", "6", "7", "8", "9", ".", "-"}

\* what a key makes of the buffer b
Typed(b, key) ==
    IF key \in AcceptedChars THEN b \o <<key>>
    ELSE IF key \in {"DEL", "KEY_BACKSPACE"}
         THEN IF b = <<>> THEN <<>> ELSE [k \in 1..(Len(b) - 1) |-> b[k]]
         ELSE b

\* C9: the edit buffer is empty on entering Editing and, while the dashboard
\* stays in Editing, each key makes of it exactly this: an accepted character
\* (digit, '.', '-') is appended, a backspace removes the last character (none
\* of an empty buffer), any other key leaves it as it is -- so the buffer is
\* the in-order concatenation of the accepted characters typed, less the
\* backspaced ones.  The cancel key leaves it unchanged as well.
C9_BufferFollowsKeys ==
    [][ /\ (KeyStep /\ ~editing /\ editing') =>
              /\ EditIdx # 0
              /\ items'[EditIdx].edit_buffer = StrBuf(<<>>)
        /\ (KeyStep /\ editing /\ EditIdx # 0 /\ (editing' \/ lastKey' = "ESC")) =>
              /\ items'[EditIdx].edit_buffer = StrBuf(Typed(EditBuf, lastKey'))
              /\ \A i \in ItemIdx \ {EditIdx} : items'[i].edit_buffer = items[i].edit_buffer
      ]_vars

\* "1", ".", one more character and a backspace: the buffer reads "1."
C9_Witness ==
    /\ pc = "drain"
    /\ editing
    /\ lastKey \in {"DEL", "KEY_BACKSPACE"}
    /\ EditIdx # 0
    /\ EditBuf = <<"1", ".">>

\* ------------------------------------------------------------------ C10
\* C10: the quit key ends the render loop whichever input state it is pressed
\* in: after 'q' is handled, in Navigating or in Editing, run() has stopped.
C10_QuitFromEitherState ==
    [][ (KeyStep /\ lastKey' = "q") => pc' = "stopped" ]_vars

\* ------------------------------------------------------------------ C11
\* C11: the color-toggle key pressed in Navigating (with or without navigable
\* items) or in Editing negates the inversion flag and changes nothing else:
\* cursor, editing mode, items (buffers and values), and no action is called.
C11_ToggleAtAnyTime ==
    [][ (KeyStep /\ lastKey' = "i") =>
          /\ inverted_colors' = ~inverted_colors
          /\ cursor' = cursor
          /\ editing' = editing
          /\ items' = items
          /\ calls' = <<>>
          /\ pc' = "drain"
      ]_vars

\* ------------------------------------------------------------------ C12
\* C12: run() stops looping only when the quit key is pressed: whenever the
\* render loop has ended, the key it last handled was 'q' and no exception
\* (from unpacking an empty cell, an instrument lookup or an instrument
\* action) left run().
C12_OnlyQuitEndsRun ==
    pc \in {"stopped", "crashed"} => (lastKey = "q" /\ err = "none")

\* ------------------------------------------------------------------ C13
\* an action is dispatched for the item at the cursor: confirm in Navigating
\* on a non-editable item, or confirm in Editing (the commit)
DispatchStep ==
    /\ KeyStep
    /\ lastKey' = "ENTER"
    /\ EditIdx # 0
    /\ editing \/ ~items[EditIdx].editable

\* C13: when an action is dispatched for an item whose channel is missing or
\* has no registered instrument, a warning is logged (it is the newest log
\* message), no instrument action is called, and the render loop goes on in
\* Navigating.
C13_MissingInstrumentWarns ==
    [][ (DispatchStep /\ ~Registered(items[EditIdx])) =>
          /\ log_messages' # <<>>
          /\ log_messages'[Len(log_messages')] = "Warning: missing channel or action"
          /\ calls' = <<>>
          /\ ~editing'
          /\ pc' = "drain"
      ]_vars

\* ------------------------------------------------------------------ C20
\* confirm in Navigating on a non-editable item with channel and action, an
\* instrument being registered for the channel
ConfirmActionStep ==
    /\ KeyStep
    /\ ~editing
    /\ lastKey' = "ENTER"
    /\ EditIdx # 0
    /\ ~items[EditIdx].editable
    /\ items[EditIdx].channel # None
    /\ items[EditIdx].action # None
    /\ Registered(items[EditIdx])

\* C20: in Navigating the confirm key on the selected non-editable item that
\* has a channel and an action calls that action on the instrument of the
\* item's channel exactly once and without argument, in the step that handles
\* the key (before the next draw), and leaves cursor, input state and items
\* as they were.
C20_ConfirmInvokesActionOnce ==
    [][ ConfirmActionStep =>
          /\ calls' = << [channel |-> items[EditIdx].channel[1],
                          action |-> items[EditIdx].action,
                          args |-> <<>>] >>
          /\ pc' # "draw"
          /\ cursor' = cursor
          /\ editing' = editing
          /\ items' = items
      ]_vars

\* the Switch at (0,0) was drawn selected, Enter was handled, power_switch
\* was called once on channel 0 and the loop goes on in Navigating
C20_Witness ==
    /\ pc = "drain"
    /\ lastKey = "ENTER"
    /\ ~editing
    /\ cursor = <<0, 0>>
    /\ \E i \in ItemIdx : drawn[i] /\ items[i].kind = "Switch"
    /\ calls = << [channel |-> 0, action |-> Some("power_switch"), args |-> <<>>] >>

\* the poll thread gets its turns: a sleep returns, _log returns and the
\* loop test is made
SpecPollFair ==
    /\ SpecPoll
    /\ WF_vars(PollLogTrim)
    /\ WF_vars(PollBackoff)
    /\ WF_vars(PollLoopTop)

\* ------------------------------------------------------------------ C14
PollErrorMessages == {"Error updating instrument", "Error updating instrument data"}

\* an error comes up in the poll loop: future.result() re-raises the
\* exception of update_data, as_completed times out, or the registry has
\* changed size under the iteration
PollRaises ==
    \/ /\ pollpc = "collect"
       /\ \E c \in DOMAIN futures :
            futures[c] = "failed" /\ (c \notin DOMAIN futures' \/ futures'[c] # "failed")
    \/ /\ pollpc = "collect"
       /\ \E c \in DOMAIN futures : futures[c] = "running"
       /\ futures' = NoFutures
    \/ /\ pollpc = "iterate"
       /\ Cardinality(DOMAIN instruments) # iter_used
       /\ pollpc' # "iterate"

\* C14: the poll loop ends only at its loop test with the running flag
\* cleared; every error raised in a cycle (update_data failing, the timeout,
\* the registry changing during iteration) is caught and logged, the loop
\* staying alive; and after an error the loop goes on: the collect loop is
\* resumed after a failed update_data, and after the back-off a new cycle
\* begins (or the loop ends, the running flag being cleared).
C14_PollLoopSurvivesErrors ==
    /\ [][ /\ (pollpc # "exited" /\ pollpc' = "exited") => (pollpc = "submit" /\ ~running)
           /\ PollRaises =>
                /\ \E m \in PollErrorMessages : log_messages' = Append(log_messages, m)
                /\ pollpc' \in {"log_collect", "log_backoff"}
       ]_vars
    /\ [](pollpc = "log_collect" ~> pollpc = "collect")
    /\ [](pollpc \in {"log_backoff", "backoff"} ~> pollpc \in {"iterate", "exited"})

\* a failed update_data and a timeout were logged, and a new cycle has begun
C14_Witness ==
    /\ running
    /\ pollpc = "iterate"
    /\ log_messages = <<"Error updating instrument", "Error updating instrument data">>

\* ------------------------------------------------------------------ C15
\* the pairs of batch b that name item i
PairsFor(b, i) == {k \in 1..Len(b) : b[k][1] = i}

\* C15: no step of the polling task changes an item (its cached value
\* included); an item's cached value changes only in a step of run(): the
\* drain of one batch, where every changed value is the value of a pair of the
\* dequeued batch naming that item, or the handling of the confirm key in
\* Editing (the edit commit).
C15_OnlyRenderWritesValues ==
    [][ /\ poll_vars' # poll_vars => items' = items
        /\ Values(items') # Values(items) =>
             \/ /\ pc = "drain"
                /\ data_queue # <<>>
                /\ data_queue' = Tail(data_queue)
                /\ \A i \in ItemIdx :
                     items'[i].value # items[i].value =>
                        \E k \in PairsFor(Head(data_queue), i) :
                            Head(data_queue)[k][2] = items'[i].value
             \/ /\ pc = "input"
                /\ editing
                /\ lastKey' = "ENTER"
                /\ \A i \in ItemIdx : items'[i].value # items[i].value => i = EditIdx
      ]_vars

\* the drain has changed a cached value while the poll thread is in the
\* middle of its next cycle, an update_data call running
C15_Witness ==
    /\ pc = "drain"
    /\ drained # <<>>
    /\ Values(items) # pre_values
    /\ pollpc = "collect"
    /\ \E c \in DOMAIN futures : futures[c] = "running"

\* ------------------------------------------------------------------ C16
\* the poll thread is inside _log: its message is appended, the list not
\* yet trimmed
PollInLog == pollpc \in {"log_collect", "log_backoff"}

\* C16: the queue is the only state the two tasks share: a step of the
\* polling task changes nothing of the render task and at most appends a
\* batch to the queue, a step of the render task changes nothing of the
\* polling task and at most removes the oldest batch, and the log list is
\* neither drawn nor written by the render task while the polling task is
\* writing it in _log.
C16_QueueIsOnlySharedState ==
    [][ /\ poll_vars' # poll_vars =>
             /\ render_vars' = render_vars
             /\ \/ data_queue' = data_queue
                \/ /\ Len(data_queue') = Len(data_queue) + 1
                   /\ SubSeq(data_queue', 1, Len(data_queue)) = data_queue
        /\ render_vars' # render_vars =>
             /\ poll_vars' = poll_vars
             /\ \/ data_queue' = data_queue
                \/ data_queue # <<>> /\ data_queue' = Tail(data_queue)
             /\ (pc = "draw" \/ log_messages' # log_messages) => ~PollInLog
      ]_vars

\* ------------------------------------------------------------------ C17
\* a step that puts a batch on the queue, and the batch
EnqueueStep == Len(data_queue') = Len(data_queue) + 1
Enqueued == data_queue'[Len(data_queue')]

\* C17: every batch put on the queue is non-empty, is put there when the
\* update_data call of one instrument has just been collected as completed,
\* and holds only pairs (item, value) whose item is bound to that instrument's
\* channel and to a data field and whose value is the instrument's current
\* value of that field, not None; and no drain step makes a cached value None.
C17_BatchesBoundAndNonNull ==
    [][ /\ EnqueueStep =>
             /\ Enqueued # <<>>
             /\ \E c \in DOMAIN futures :
                  /\ futures[c] = "done"
                  /\ futures'[c] = "collected"
                  /\ \A k \in 1..Len(Enqueued) :
                       LET item == items[Enqueued[k][1]]
                       IN  /\ item.channel = Some(c)
                           /\ item.data # None
                           /\ Enqueued[k][2] = Get(instruments[c], item.data[1])
                           /\ Enqueued[k][2] # NoneVal
        /\ pc = "drain" =>
             \A i \in ItemIdx : items'[i].value = NoneVal => items[i].value = NoneVal
      ]_vars

\* two batches of the same instrument wait on the queue: one made while its
\* "target" was None, without a pair for the item bound to it, and a later
\* one with all three bound items
C17_Witness ==
    /\ Len(data_queue) = 2
    /\ Len(data_queue[1]) = 2
    /\ Len(data_queue[2]) = 3
    /\ \A k \in 1..2 : items[data_queue[1][k][1]].data # Some("target")

\* ------------------------------------------------------------------ C18
\* the timeout of as_completed is reported: the outer except clause logs
\* while the cycle is collecting
TimeoutStep ==
    /\ pollpc = "collect"
    /\ log_messages' = Append(log_messages, "Error updating instrument data")

\* C18: when update_data calls have not completed within the timeout, the
\* cycle is abandoned and the timeout logged: the step puts nothing on the
\* queue and drops the cycle's futures, leaving the unfinished calls behind;
\* from then until the next cycle starts nothing is enqueued and no
\* update_data is submitted; a call left behind enqueues nothing when it ends;
\* and a batch is only ever enqueued for a call collected as completed, never
\* for one that timed out.
C18_TimeoutAbandonsPoll ==
    [][ /\ TimeoutStep =>
             /\ \E c \in DOMAIN futures : futures[c] = "running"
             /\ data_queue' = data_queue
             /\ pollpc' = "log_backoff"
             /\ futures' = NoFutures
             /\ \A c \in DOMAIN futures :
                  abandoned'[c] = abandoned[c] + (IF futures[c] = "running" THEN 1 ELSE 0)
        /\ pollpc \in {"log_backoff", "backoff", "submit"} =>
             /\ Len(data_queue') <= Len(data_queue)
             /\ \A c \in DOMAIN futures' : futures'[c] # "running"
             /\ \A c \in DOMAIN abandoned : abandoned'[c] <= abandoned[c]
        /\ (\E c \in DOMAIN abandoned : abandoned'[c] < abandoned[c]) =>
             data_queue' = data_queue
        /\ EnqueueStep =>
             \E c \in DOMAIN futures : futures[c] = "done" /\ futures'[c] = "collected"
      ]_vars

\* the back-off after a timeout: the timeout is the newest log message, the
\* call that did not complete is still running, nothing is on the queue
C18_Witness ==
    /\ pollpc = "backoff"
    /\ \E c \in DOMAIN abandoned : abandoned[c] > 0
    /\ log_messages # <<>>
    /\ log_messages[Len(log_messages)] = "Error updating instrument data"
    /\ data_queue = <<>>
    /\ futures = NoFutures

\* ------------------------------------------------------------------ C19
\* update_data calls of channel c that are running
RunningCalls(c) ==
    abandoned[c] + (IF c \in DOMAIN futures /\ futures[c] = "running" THEN 1 ELSE 0)

\* C19: a cycle submits update_data only when no update_data call of an
\* earlier cycle is still running, so no instrument ever has two update_data
\* calls running at the same time.
C19_NoOverlappingUpdates ==
    \A c \in DOMAIN abandoned : RunningCalls(c) <= 1

\* ------------------------------------------------------------------ C21
\* confirm in Navigating with an editable item at the cursor
ConfirmEditableStep ==
    /\ KeyStep
    /\ ~editing
    /\ lastKey' = "ENTER"
    /\ EditIdx # 0
    /\ items[EditIdx].editable

\* C21: in Navigating the confirm key on the selected editable item enters
\* Editing: the dashboard's editing flag and the item's edit flag become true,
\* the item's edit buffer is reset to the empty string, nothing else of any
\* item changes, no instrument action is called, the cursor stays and the
\* render loop goes on.
C21_ConfirmEntersEditing ==
    [][ ConfirmEditableStep =>
          /\ editing'
          /\ items'[EditIdx] = [items[EditIdx] EXCEPT !.editing = TRUE,
                                                      !.edit_buffer = StrBuf(<<>>)]
          /\ \A i \in ItemIdx \ {EditIdx} : items'[i] = items[i]
          /\ calls' = <<>>
          /\ cursor' = cursor
          /\ pc' = "drain"
      ]_vars

\* Editing was entered a second time on an item whose earlier edit was
\* committed: the buffer is empty again, the committed value is kept
C21_Witness ==
    /\ pc = "drain"
    /\ lastKey = "ENTER"
    /\ editing
    /\ calls = <<>>
    /\ \E i \in InEditMode :
         /\ drawn[i]
         /\ items[i].edit_buffer = StrBuf(<<>>)
         /\ items[i].value = FloatVal(FALSE, 11, 0)

\* ------------------------------------------------------------------ C22
\* C22: when reading the key fails in the render loop, the cycle goes on as
\* if no key had been read: cursor, editing flag, items (edit buffers and
\* values), color flag and log are unchanged, no instrument action is called,
\* and run() keeps looping.
C22_InputFailureIsNoInput ==
    [][ (pc = "input" /\ lastKey' = "ERR") =>
          /\ cursor' = cursor
          /\ editing' = editing
          /\ items' = items
          /\ inverted_colors' = inverted_colors
          /\ log_messages' = log_messages
          /\ calls' = <<>>
          /\ running' = running
          /\ err' = err
          /\ pc' = "drain"
      ]_vars

\* the read failed in the middle of an edit: still Editing, the typed
\* characters still in the buffer
C22_Witness ==
    /\ pc = "drain"
    /\ lastKey = "ERR"
    /\ editing
    /\ running
    /\ EditIdx # 0
    /\ EditBuf = <<"1", ".">>

\* ------------------------------------------------------------------ C23
\* what a keystroke can change: cursor, input mode, color flag; and the
\* action calls it makes
KeyEffect == <<current_grid_x, current_grid_y, editing, inverted_colors>>

\* C23: a render cycle goes drain, draw, input, in this order: the drain
\* ends only on an empty queue and changes nothing but item values, the draw
\* follows and draws every item without changing any, then one key at most is
\* handled and the next cycle's drain begins (or run() ends); cursor, mode and
\* color flag change, and actions are called, only in the input step, never
\* between the drain and the draw.
C23_DrainDrawInputOrder ==
    [][ /\ pc = "drain" =>
             /\ pc' \in {"drain", "draw"}
             /\ pc' = "draw" => data_queue = <<>>
             /\ render_vars' # render_vars =>
                  data_queue' = (IF data_queue = <<>> THEN <<>> ELSE Tail(data_queue))
             /\ \A i \in ItemIdx : [items'[i] EXCEPT !.value = items[i].value] = items[i]
        /\ pc = "draw" =>
             /\ pc' \in {"draw", "input", "crashed"}
             /\ items' = items
             /\ pc' # "draw" => DOMAIN drawn' = ItemIdx
        /\ pc = "input" => pc' \in {"input", "drain", "stopped", "crashed"}
        /\ pc # "input" =>
             /\ KeyEffect' = KeyEffect
             /\ calls' = <<>> \/ calls' = calls
             /\ \A i \in ItemIdx : /\ items'[i].editing = items[i].editing
                                   /\ items'[i].edit_buffer = items[i].edit_buffer
        /\ pc \in {"stopped", "crashed"} => render_vars' = render_vars
      ]_vars

\* a cycle that drained a batch and drew, about to read its key in Editing
\* (entered by the key of an earlier cycle), while a batch that came after
\* the drain waits for the next cycle
C23_Witness ==
    /\ pc = "input"
    /\ Len(drained) = 1
    /\ Values(items) # pre_values
    /\ data_queue # <<>>
    /\ editing
    /\ \E i \in ItemIdx : drawn[i]

\* ------------------------------------------------------------------ C24
\* the instruments added with channel c, by their place in the order of adding
AddedWith(c) == {k \in 1..Len(added) : added[k].channel = c}

\* C24: after any sequence of add_instruments calls the registry has an entry
\* for exactly the channels of the instruments added, the entry of a channel
\* is the instrument added last with that channel, and every instrument added
\* has its logger set to the dashboard's _log.
C24_RegistryHoldsLastAdded ==
    /\ DOMAIN owner = {added[k].channel : k \in 1..Len(added)}
    /\ DOMAIN instruments = DOMAIN owner
    /\ \A c \in DOMAIN owner :
         /\ owner[c] \in AddedWith(c)
         /\ \A k \in AddedWith(c) : k <= owner[c]
    /\ \A k \in 1..Len(added) : added[k].logger = Some("Dashboard._log")

\* channel 0 was given to a second instrument after an instrument of channel
\* 1 was added: the registry holds the third instrument for 0, the second for 1
C24_Witness ==
    /\ Len(added) = 3
    /\ added[1].channel = 0
    /\ added[2].channel = 1
    /\ added[3].channel = 0
    /\ owner[0] = 3
    /\ owner[1] = 2

\* ------------------------------------------------------------------ C25
\* C25: after any sequence of logged messages and calls to set_max_logs and
\* show_log the stored log holds at most max_log_messages messages, and they
\* are the messages logged last, in the order they came: a logged message
\* goes to the end and only the oldest messages are dropped.
C25_LogWithinMaximum ==
    [][ /\ Len(log_messages') <= max_log_messages'
        /\ log_messages' # log_messages =>
             \E msg \in LogTexts, k \in 0..Len(log_messages) :
                 log_messages' = SubSeq(Append(log_messages, msg), k + 1,
                                        Len(log_messages) + 1)
      ]_vars

\* ------------------------------------------------------------------ C26
\* C26: items are drawn in the order they were added: no step removes or
\* reorders an item of the list (add_items only appends), and every draw of
\* the render loop makes one draw call per added item, in insertion order.
C26_DrawnInInsertionOrder ==
    [][ /\ Len(items') >= Len(items)
        /\ \A k \in 1..Len(items) : Identity(items'[k]) = Identity(items[k])
        /\ (pc = "draw" /\ pc' # "draw") =>
               /\ Len(draw_order') = Len(items)
               /\ \A k \in 1..Len(items) : draw_order'[k] = Identity(items[k])
      ]_vars

C26_Witness ==
    /\ pc = "input"
    /\ Len(items) = 3
    /\ items[1].kind = "Switch" /\ items[2].kind = "Label" /\ items[3].kind = "Editable"
    /\ draw_order = <<Identity(items[1]), Identity(items[2]), Identity(items[3])>>

\* ------------------------------------------------------------------ C27
\* the column the alignment asks for, before offset and clamp
AlignedX(w, text_length) ==
    CASE w.halign = "left" -> w.x
      [] w.halign = "center" -> w.x - (text_length \div 2)
      [] w.halign = "right" -> w.x - text_length + 1

\* C27: for every integer position, offset, text length and horizontal
\* alignment the returned cell is the aligned position plus the offsets
\* (left: x; center: x minus half the text length rounded down; right: x minus
\* the text length plus one), with negative coordinates replaced by 0: both
\* returned coordinates are >= 0.
C27_PositionClamped ==
    (position.called /\ position.w.xycoords = "int" /\ position.w.halign \in HAligns) =>
        LET w == position.w
            ax == AlignedX(w, position.text_length) + w.xoffset
            ay == w.y + w.yoffset
        IN  /\ position.result.raised = "none"
            /\ position.result.xpos >= 0
            /\ position.result.ypos >= 0
            /\ position.result.xpos = IF ax >= 0 THEN ax ELSE 0
            /\ position.result.ypos = IF ay >= 0 THEN ay ELSE 0

\* a right-aligned text whose aligned column is on the screen and whose
\* offset moves it off to the left, and a row the offset moves above the top
C27_Witness ==
    /\ position.called
    /\ position.w.xycoords = "int" /\ position.w.halign = "right"
    /\ position.w.x = 1 /\ position.text_length = 2 /\ position.w.xoffset = -2
    /\ position.w.y = 1 /\ position.w.yoffset = -2
    /\ position.result = [raised |-> "none", xpos |-> 0, ypos |-> 0]

\* ------------------------------------------------------------------ C28
\* the collect loop handles the finished future of channel c
CollectOf(c) ==
    /\ pollpc = "collect"
    /\ futures[c] \in {"done", "failed"}
    /\ futures'[c] = "collected"

\* C28: when the update_data call of an instrument raised, its collection
\* logs the error, enqueues nothing and leaves the futures of the other
\* instruments to be collected in the same cycle: after the log call the
\* collect loop goes on, the cycle ends only when every future was handled,
\* and the collection of a call that returned enqueues its non-empty batch
\* whatever happened to the others. A batch is enqueued only by the collection
\* of a call that has returned and holds the instrument's data as they are
\* then.
C28_FailedUpdateSkipsOnlyItsBatch ==
    [][ /\ \A c \in DOMAIN futures :
             /\ (CollectOf(c) /\ futures[c] = "failed") =>
                    /\ log_messages' = Append(log_messages, "Error updating instrument")
                    /\ data_queue' = data_queue
                    /\ future_to_items' = future_to_items
                    /\ \A d \in DOMAIN futures \ {c} : futures'[d] = futures[d]
             /\ (CollectOf(c) /\ futures[c] = "done") =>
                    LET batch == Updates(items, instruments, future_to_items[c])
                    IN  data_queue' = IF batch # <<>> THEN Append(data_queue, batch)
                                      ELSE data_queue
        /\ (pollpc = "log_collect" /\ pollpc' # pollpc) =>
               /\ pollpc' = "collect"
               /\ futures' = futures
               /\ future_to_items' = future_to_items
        /\ (pollpc = "collect" /\ pollpc' = "submit") =>
               \A c \in DOMAIN futures : futures[c] = "collected"
        /\ Len(data_queue') > Len(data_queue) =>
               \E c \in DOMAIN futures : CollectOf(c) /\ futures[c] = "done"
      ]_vars

\* the call of instrument 0 raised and was logged while the call of
\* instrument 1 has returned with a value to show
C28_Witness ==
    /\ pollpc = "log_collect"
    /\ futures[0] = "collected"
    /\ futures[1] = "done"
    /\ Updates(items, instruments, future_to_items[1]) # <<>>

\* ------------------------------------------------------------------ C29
\* C29: while one instrument's update_data never returns, the other
\* instruments are still polled in every cycle: when the cycle's timeout
\* comes, the update_data call of every other instrument has run and was
\* collected (its non-empty batch enqueued), whatever the size of the pool.
C29_OthersPolledDespiteHang ==
    [][ TimeoutStep =>
            \A c \in DOMAIN instruments \ {HungChannel} :
                c \in DOMAIN futures /\ futures[c] = "collected"
      ]_vars

\* ------------------------------------------------------------------ C30
\* the main thread gets its turns: getch returns after 100 ms at most and
\* every other step of run() returns
SpecDrainFair == SpecPoll /\ WF_vars(RenderNext)

RenderRunning == pc \in {"drain", "draw", "input"}

\* the value batch b gives item i: that of its last pair naming i, else v
BatchValue(b, i, v) ==
    IF PairsFor(b, i) = {} THEN v
    ELSE b[CHOOSE k \in PairsFor(b, i) : \A j \in PairsFor(b, i) : j <= k][2]

\* C30: the queue is first in, first out and loses nothing: a batch is put
\* at the end and stays until the drain of run() removes it from the front,
\* that step applies exactly this batch to the items, and while the render
\* loop is running every batch on the queue is dequeued in the end (the
\* queue is found empty).
C30_EveryBatchDrainedOnce ==
    /\ [][ /\ Len(data_queue') > Len(data_queue) =>
                /\ data_queue' = Append(data_queue, data_queue'[Len(data_queue')])
                /\ drained' = drained
                /\ items' = items
           /\ Len(data_queue') < Len(data_queue) =>
                /\ pc = "drain"
                /\ data_queue' = Tail(data_queue)
                /\ drained' = Append(drained, Head(data_queue))
                /\ \A i \in ItemIdx :
                     items'[i].value = BatchValue(Head(data_queue), i, items[i].value)
           /\ Len(data_queue') = Len(data_queue) => data_queue' = data_queue
         ]_vars
    /\ (RenderRunning /\ data_queue # <<>>) ~> (data_queue = <<>> \/ ~RenderRunning)

\* two different batches, enqueued one after the other, were dequeued by one
\* drain in that order
C30_Witness ==
    /\ pc = "draw"
    /\ data_queue = <<>>
    /\ Len(drained) = 2
    /\ drained[1] # drained[2]
    /\ \A i \in ItemIdx : items[i].value = BatchValue(drained[2], i, BatchValue(drained[1], i, pre_values[i]))

\* ------------------------------------------------------------------ C32
\* the cursor is on the navigable grid
InBounds ==
    /\ Navigable(items) # {}
    /\ current_grid_x \in 0..MaxX(items)
    /\ current_grid_y \in 0..MaxY(items)

\* C32: with a fixed set of items, a cursor that is within
\* [0, max_x] x [0, max_y] is still there after any step, whatever the key and
\* whether cycling is on or off; so a cursor that starts within the bounds
\* never leaves them.
C32_CursorStaysInBounds ==
    [][ /\ Navigable(items') = Navigable(items)
        /\ InBounds => InBounds' ]_vars

\* with cycling on, KEY_LEFT took the cursor from an item of the first column
\* to the last column
C32_Witness ==
    /\ InBounds
    /\ MaxX(items) > 0
    /\ current_grid_x = MaxX(items)
    /\ cycle
    /\ lastKey = "KEY_LEFT"
    /\ \E i \in ItemIdx : drawn[i] /\ items[i].xgrid = Some(0)

\* ------------------------------------------------------------------ C33
\* C33: in Navigating, the confirm key on a grid cell that holds no navigable
\* item does nothing: no action is invoked, the cursor, the editing flag and
\* every item stay as they are, and run() goes on with its next cycle.
C33_ConfirmOnEmptyCellIsNoOp ==
    [][ (/\ KeyStep
         /\ lastKey' = "ENTER"
         /\ ~editing
         /\ GetItemAtGrid(items, current_grid_x, current_grid_y) = 0) =>
            /\ calls' = <<>>
            /\ cursor' = cursor
            /\ editing' = editing
            /\ items' = items
            /\ log_messages' = log_messages
            /\ pc' = "drain"
            /\ running' = running
            /\ err' = err
      ]_vars

C35_EditingFlagMatchesItem ==
    /\ editing <=> Cardinality(InEditMode) = 1
    /\ ~editing => InEditMode = {}
    /\ \A i \in InEditMode : items[i].editable /\ items[i].navigable

\* an item is being edited for the second time: its value comes from the
\* edit confirmed before and Enter has just emptied its buffer
C35_Witness ==
    /\ pc = "drain"
    /\ editing
    /\ lastKey = "ENTER"
    /\ \E i \in ItemIdx :
         /\ InEditMode = {i}
         /\ items[i].edit_buffer = StrBuf(<<>>)
         /\ items[i].value # FloatVal(FALSE, 0, 0)

\* ------------------------------------------------------------------ C31
\* both loops get their turns: every step of run() returns, and so do the
\* submission, every update_data call (by returning or by raising), the
\* collection, _log and the sleep of the poll loop
SpecConsistFair ==
    /\ SpecConsist
    /\ WF_vars(DrainStep)
    /\ WF_vars(Draw)
    /\ WF_vars(InputError \/ HandleInput)
    /\ WF_vars(PollSubmit)
    /\ WF_vars(UpdateData)
    /\ WF_vars(PollCollect)
    /\ WF_vars(PollLogTrim)
    /\ WF_vars(PollSleep)

\* every item bound to a field of a registered instrument whose snapshot d
\* holds a value for it has that value cached
Shows(d) ==
    \A i \in ItemIdx :
        (/\ Registered(items[i])
         /\ items[i].data # None
         /\ Get(d, items[i].data[1]) # NoneVal) =>
            items[i].value = Get(d, items[i].data[1])

\* from some moment on the instruments' snapshots are d and change no more,
\* run() keeps running and no edit is committed
Settled(d) ==
    /\ <>[](\A c \in DOMAIN instruments : instruments[c] = d)
    /\ <>[]RenderRunning
    /\ <>[][~EditCommitStep]_vars

====
